---- MODULE Spec2Model ----
(***************************************************************************)
(* Model of the tournament ban/pick server: the participant registry       *)
(* (services/player_manager.rs), the draft validator                       *)
(* (services/tournament_validation.rs) and the session transport           *)
(* (services/socket_server.rs).                                            *)
(*                                                                         *)
(* Rust values are encoded as follows.                                     *)
(*   Option<T>      None is <<>>, Some(x) is <<x>>                         *)
(*   Result<T, E>   Ok(v) is [ok |-> TRUE, value |-> v],                   *)
(*                  Err(e) is [ok |-> FALSE, error |-> e]                  *)
(*   HashMap<K, V>  a function whose domain is the set of keys; the one    *)
(*                  map the code iterates (agent_picks) is a sequence of   *)
(*                  <<key, value>> pairs in the map's iteration order      *)
(*   Vec<T>         a sequence                                             *)
(***************************************************************************)
EXTENDS Integers, Sequences, FiniteSets, TLC

(***************************************************************************)
(* Bounds of the model.                                                    *)
(***************************************************************************)
\* socket ids are 1..NumSockets
NumSockets == 3
\* longest maps_banned / agents_banned list of a validated state
MaxBanned == 2
\* longest maps_picked list of a validated state
MaxPicked == 2
\* action_number of a validated state ranges over MinActionNumber..MaxActionNumber
MaxActionNumber == 18
\* The spawned "player-join" tasks waiting to run at once
MaxJoinTasks == 1

None == <<>>
Some(x) == <<x>>
IsSome(o) == o # <<>>
Unwrap(o) == o[1]

Ok(v) == [ok |-> TRUE, value |-> v]
Err(e) == [ok |-> FALSE, error |-> e]

SocketIds == 1..NumSockets
Roles == {"P1", "P2"}
PlayerNames == {"Alice"}
Ports == {3001}

\* The order of the elements of a sequence of <<key, value>> pairs.
Keys(pairs) == {pairs[i][1] : i \in 1..Len(pairs)}

\* All sequences over S of length at most n.
SeqUpTo(S, n) == UNION {[1..k -> S] : k \in 0..n}

VARIABLES
    players,                  \* PlayerManager.players: socket_id -> PlayerInfo
    assignments,              \* PlayerManager.assignments: player_id -> socket_id
    status,                   \* TournamentServer.status (ServerStatus)
    io,                       \* TournamentServer.io: Option<SocketIo>
    server_handle,            \* TournamentServer.server_handle: Option<JoinHandle>
    current_tournament_state, \* Option<TournamentState>
    validated_actions,        \* Vec<ValidatedPlayerAction>
    connections,              \* socket id -> "closed" | "open" | "closing"
    join_tasks,               \* the spawned "player-join" handler tasks not yet run
    timer,                    \* TimerState: status, seconds, initial_seconds
    stop_sent,                \* whether true was sent on TimerState's current stop channel
    loops,                    \* the spawned run_timer_loop tasks
    run,                      \* the ticks since the last start_timer from Ready
    mutex,                    \* the task holding each tokio Mutex of the server, if any
    last                      \* the last operation: its arguments, result and emitted events

server_vars == <<players, assignments, status, io, server_handle,
                 current_tournament_state, validated_actions, connections,
                 join_tasks>>

timer_vars == <<timer, stop_sent, loops, run>>

lock_vars == <<mutex>>

vars == <<server_vars, timer_vars, lock_vars, last>>

registry == <<players, assignments>>

(***************************************************************************)
(* PlayerManager (services/player_manager.rs).  A manager value is the     *)
(* record [players, assignments]; an operation returns the manager after   *)
(* the call together with the call's result.                               *)
(***************************************************************************)
PlayerManager_new == [players |-> <<>>, assignments |-> <<>>]

\* PlayerInfo; connection_time (a wall-clock read) is left out.
PlayerInfo(name, socket_id, player_id) ==
    [name |-> name, socket_id |-> socket_id, player_id |-> player_id,
     connected |-> TRUE]

\* HashMap::insert and HashMap::remove
MapInsert(m, k, v) == [x \in DOMAIN m \cup {k} |-> IF x = k THEN v ELSE m[x]]
MapRemove(m, k) == [x \in DOMAIN m \ {k} |-> m[x]]

ErrSocketConnected == "Socket already connected"
ErrTournamentFull == "Tournament is full (2 players maximum)"

\* add_player with the roles tried in the other order
add_player_p2_first(pm, name, socket_id) ==
    IF socket_id \in DOMAIN pm.players
    THEN [pm |-> pm, result |-> Err(ErrSocketConnected)]
    ELSE IF "P1" \in DOMAIN pm.assignments /\ "P2" \in DOMAIN pm.assignments
    THEN [pm |-> pm, result |-> Err(ErrTournamentFull)]
    ELSE LET player_id == IF "P2" \notin DOMAIN pm.assignments THEN "P2" ELSE "P1"
             player_info == PlayerInfo(name, socket_id, Some(player_id))
         IN  [pm |-> [players |-> MapInsert(pm.players, socket_id, player_info),
                      assignments |-> MapInsert(pm.assignments, player_id, socket_id)],
              result |-> Ok(player_info)]

\* add_player with the capacity check ahead of the duplicate check
add_player_full_first(pm, name, socket_id) ==
    IF "P1" \in DOMAIN pm.assignments /\ "P2" \in DOMAIN pm.assignments
    THEN [pm |-> pm, result |-> Err(ErrTournamentFull)]
    ELSE IF socket_id \in DOMAIN pm.players
    THEN [pm |-> pm, result |-> Err(ErrSocketConnected)]
    ELSE LET player_id == IF "P1" \notin DOMAIN pm.assignments THEN "P1" ELSE "P2"
             player_info == PlayerInfo(name, socket_id, Some(player_id))
         IN  [pm |-> [players |-> MapInsert(pm.players, socket_id, player_info),
                      assignments |-> MapInsert(pm.assignments, player_id, socket_id)],
              result |-> Ok(player_info)]

add_player(pm, name, socket_id) ==
    IF socket_id \in DOMAIN pm.players
    THEN [pm |-> pm, result |-> Err(ErrSocketConnected)]
    ELSE IF "P1" \in DOMAIN pm.assignments /\ "P2" \in DOMAIN pm.assignments
    THEN [pm |-> pm, result |-> Err(ErrTournamentFull)]
    ELSE LET player_id == IF "P1" \notin DOMAIN pm.assignments THEN "P1" ELSE "P2"
             player_info == PlayerInfo(name, socket_id, Some(player_id))
         IN  [pm |-> [players |-> MapInsert(pm.players, socket_id, player_info),
                      assignments |-> MapInsert(pm.assignments, player_id, socket_id)],
              result |-> Ok(player_info)]

\* remove_player_by_socket that leaves the role's assignment behind
remove_player_keeps_assignment(pm, socket_id) ==
    IF socket_id \in DOMAIN pm.players
    THEN [pm |-> [players |-> MapRemove(pm.players, socket_id),
                  assignments |-> pm.assignments],
          result |-> Some(pm.players[socket_id])]
    ELSE [pm |-> pm, result |-> None]

remove_player_by_socket(pm, socket_id) ==
    IF socket_id \in DOMAIN pm.players
    THEN LET player == pm.players[socket_id]
         IN  [pm |-> [players |-> MapRemove(pm.players, socket_id),
                      assignments |-> IF IsSome(player.player_id)
                                      THEN MapRemove(pm.assignments, Unwrap(player.player_id))
                                      ELSE pm.assignments],
              result |-> Some(player)]
    ELSE [pm |-> pm, result |-> None]

get_player_by_socket(pm, socket_id) ==
    IF socket_id \in DOMAIN pm.players THEN Some(pm.players[socket_id]) ELSE None

get_player_by_id(pm, player_id) ==
    IF player_id \in DOMAIN pm.assignments
    THEN get_player_by_socket(pm, pm.assignments[player_id])
    ELSE None

get_connected_count(pm) == Cardinality(DOMAIN pm.players)

is_player_assigned(pm, player_id) == player_id \in DOMAIN pm.assignments

get_socket_for_player(pm, player_id) ==
    IF player_id \in DOMAIN pm.assignments
    THEN Some(pm.assignments[player_id])
    ELSE None

disconnect_all_players(pm) == [players |-> <<>>, assignments |-> <<>>]

\* The manager held by the server in the current state.
pm_now == [players |-> players, assignments |-> assignments]


(***************************************************************************)
(* Asset catalog (utils/constants.rs).                                     *)
(***************************************************************************)
ALL_MAPS ==
    <<"abyss", "ascent", "bind", "breeze", "corrode", "fracture",
      "haven", "icebox", "lotus", "pearl", "split", "sunset">>

ALL_AGENTS ==
    <<"astra", "breach", "brimstone", "chamber", "clove", "cypher",
      "deadlock", "fade", "gekko", "harbor", "iso", "jett", "kayo",
      "killjoy", "neon", "omen", "phoenix", "raze", "reyna", "sage",
      "skye", "sova", "tejo", "viper", "vyse", "waylay", "yoru">>

\* slice::contains
Contains(seq, x) == \E i \in 1..Len(seq) : seq[i] = x

(***************************************************************************)
(* TournamentValidator (services/tournament_validation.rs).  A             *)
(* TournamentState is a record with the fields of the Rust struct.         *)
(***************************************************************************)
\* ValidationError variants
InvalidPlayer(received, expected) ==
    [variant |-> "InvalidPlayer", received |-> received, expected |-> expected]
NotPlayerTurn(received, current) ==
    [variant |-> "NotPlayerTurn", received |-> received, current |-> current]
EventNotStarted == [variant |-> "EventNotStarted"]
TournamentCompleted == [variant |-> "TournamentCompleted"]
InvalidPhase(action, current_phase) ==
    [variant |-> "InvalidPhase", action |-> action, current_phase |-> current_phase]
AssetNotFound(asset, asset_type) ==
    [variant |-> "AssetNotFound", asset |-> asset, asset_type |-> asset_type]
AssetAlreadyBanned(asset, player) ==
    [variant |-> "AssetAlreadyBanned", asset |-> asset, player |-> player]
AssetAlreadyPicked(asset, player) ==
    [variant |-> "AssetAlreadyPicked", asset |-> asset, player |-> player]
DeciderNotFromPickedMaps(asset, picked_maps) ==
    [variant |-> "DeciderNotFromPickedMaps", asset |-> asset, picked_maps |-> picked_maps]
UnknownActionType(action) == [variant |-> "UnknownActionType", action |-> action]

OkUnit == [ok |-> TRUE]

\* get_expected_action_type with the first map boundary off by one
get_expected_action_type_off_by_one(tournament_state) ==
    IF tournament_state.current_phase = "MAP_PHASE"
    THEN IF tournament_state.action_number < 6 THEN "MAP_BAN"
         ELSE IF tournament_state.action_number <= 8 THEN "MAP_PICK"
         ELSE IF tournament_state.action_number = 9 THEN "DECIDER"
         ELSE "UNKNOWN"
    ELSE IF tournament_state.current_phase = "AGENT_PHASE"
    THEN IF tournament_state.action_number <= 15 THEN "AGENT_BAN"
         ELSE IF tournament_state.action_number <= 17 THEN "AGENT_PICK"
         ELSE "UNKNOWN"
    ELSE "UNKNOWN"

get_expected_action_type(tournament_state) ==
    IF tournament_state.current_phase = "MAP_PHASE"
    THEN IF tournament_state.action_number <= 6 THEN "MAP_BAN"
         ELSE IF tournament_state.action_number <= 8 THEN "MAP_PICK"
         ELSE IF tournament_state.action_number = 9 THEN "DECIDER"
         ELSE "UNKNOWN"
    ELSE IF tournament_state.current_phase = "AGENT_PHASE"
    THEN IF tournament_state.action_number <= 15 THEN "AGENT_BAN"
         ELSE IF tournament_state.action_number <= 17 THEN "AGENT_PICK"
         ELSE "UNKNOWN"
    ELSE "UNKNOWN"

\* The index of the first entry of list named name, 0 when there is none: the
\* entry at which `for banned in &list { if banned.name == selection { return .. } }`
\* returns.
RECURSIVE FirstNamedFrom(_, _, _)
FirstNamedFrom(list, name, i) ==
    IF i > Len(list) THEN 0
    ELSE IF list[i].name = name THEN i
    ELSE FirstNamedFrom(list, name, i + 1)

FirstNamed(list, name) == FirstNamedFrom(list, name, 1)

\* The index of the first pair of agent_picks, in the map's iteration order,
\* whose value is Some(agent); 0 when there is none.
RECURSIVE FirstPickedFrom(_, _, _)
FirstPickedFrom(picks, agent, i) ==
    IF i > Len(picks) THEN 0
    ELSE IF picks[i][2] = Some(agent) THEN i
    ELSE FirstPickedFrom(picks, agent, i + 1)

FirstPicked(picks, agent) == FirstPickedFrom(picks, agent, 1)

\* maps_picked.iter().map(|pick| pick.name.clone()).collect()
Names(list) == [i \in 1..Len(list) |-> list[i].name]

\* validate_asset_selection with the pick list checked before the ban list
validate_asset_selection_picked_first(tournament_state, action_type, selection) ==
    IF action_type \in {"MAP_BAN", "MAP_PICK"}
    THEN LET banned == FirstNamed(tournament_state.maps_banned, selection)
             picked == FirstNamed(tournament_state.maps_picked, selection)
         IN  IF ~Contains(ALL_MAPS, selection)
             THEN Err(AssetNotFound(selection, "map"))
             ELSE IF picked # 0
             THEN Err(AssetAlreadyPicked(selection,
                                         tournament_state.maps_picked[picked].player))
             ELSE IF banned # 0
             THEN Err(AssetAlreadyBanned(selection,
                                         tournament_state.maps_banned[banned].player))
             ELSE OkUnit
    ELSE IF action_type = "DECIDER"
    THEN LET picked_map_names == Names(tournament_state.maps_picked)
         IN  IF ~Contains(picked_map_names, selection)
             THEN Err(DeciderNotFromPickedMaps(selection, picked_map_names))
             ELSE OkUnit
    ELSE IF action_type \in {"AGENT_BAN", "AGENT_PICK"}
    THEN LET banned == FirstNamed(tournament_state.agents_banned, selection)
             \* agent_picks is iterated in the map's own order
             picked == FirstPicked(tournament_state.agent_picks, selection)
         IN  IF ~Contains(ALL_AGENTS, selection)
             THEN Err(AssetNotFound(selection, "agent"))
             ELSE IF banned # 0
             THEN Err(AssetAlreadyBanned(selection,
                                         tournament_state.agents_banned[banned].player))
             ELSE IF picked # 0
             THEN Err(AssetAlreadyPicked(selection,
                                         tournament_state.agent_picks[picked][1]))
             ELSE OkUnit
    ELSE Err(UnknownActionType(action_type))

\* validate_asset_selection with the decider checked against the catalog
validate_asset_selection_decider_any_map(tournament_state, action_type, selection) ==
    IF action_type \in {"MAP_BAN", "MAP_PICK"}
    THEN LET banned == FirstNamed(tournament_state.maps_banned, selection)
             picked == FirstNamed(tournament_state.maps_picked, selection)
         IN  IF ~Contains(ALL_MAPS, selection)
             THEN Err(AssetNotFound(selection, "map"))
             ELSE IF banned # 0
             THEN Err(AssetAlreadyBanned(selection,
                                         tournament_state.maps_banned[banned].player))
             ELSE IF picked # 0
             THEN Err(AssetAlreadyPicked(selection,
                                         tournament_state.maps_picked[picked].player))
             ELSE OkUnit
    ELSE IF action_type = "DECIDER"
    THEN LET picked_map_names == Names(tournament_state.maps_picked)
         IN  IF ~Contains(ALL_MAPS, selection)
             THEN Err(DeciderNotFromPickedMaps(selection, picked_map_names))
             ELSE OkUnit
    ELSE IF action_type \in {"AGENT_BAN", "AGENT_PICK"}
    THEN LET banned == FirstNamed(tournament_state.agents_banned, selection)
             \* agent_picks is iterated in the map's own order
             picked == FirstPicked(tournament_state.agent_picks, selection)
         IN  IF ~Contains(ALL_AGENTS, selection)
             THEN Err(AssetNotFound(selection, "agent"))
             ELSE IF banned # 0
             THEN Err(AssetAlreadyBanned(selection,
                                         tournament_state.agents_banned[banned].player))
             ELSE IF picked # 0
             THEN Err(AssetAlreadyPicked(selection,
                                         tournament_state.agent_picks[picked][1]))
             ELSE OkUnit
    ELSE Err(UnknownActionType(action_type))

\* validate_asset_selection without the check of the agent picks
validate_asset_selection_picks_unchecked(tournament_state, action_type, selection) ==
    IF action_type \in {"MAP_BAN", "MAP_PICK"}
    THEN LET banned == FirstNamed(tournament_state.maps_banned, selection)
             picked == FirstNamed(tournament_state.maps_picked, selection)
         IN  IF ~Contains(ALL_MAPS, selection)
             THEN Err(AssetNotFound(selection, "map"))
             ELSE IF banned # 0
             THEN Err(AssetAlreadyBanned(selection,
                                         tournament_state.maps_banned[banned].player))
             ELSE IF picked # 0
             THEN Err(AssetAlreadyPicked(selection,
                                         tournament_state.maps_picked[picked].player))
             ELSE OkUnit
    ELSE IF action_type = "DECIDER"
    THEN LET picked_map_names == Names(tournament_state.maps_picked)
         IN  IF ~Contains(picked_map_names, selection)
             THEN Err(DeciderNotFromPickedMaps(selection, picked_map_names))
             ELSE OkUnit
    ELSE IF action_type \in {"AGENT_BAN", "AGENT_PICK"}
    THEN LET banned == FirstNamed(tournament_state.agents_banned, selection)
         IN  IF ~Contains(ALL_AGENTS, selection)
             THEN Err(AssetNotFound(selection, "agent"))
             ELSE IF banned # 0
             THEN Err(AssetAlreadyBanned(selection,
                                         tournament_state.agents_banned[banned].player))
             ELSE OkUnit
    ELSE Err(UnknownActionType(action_type))

\* validate_asset_selection without the check of the banned maps
validate_asset_selection_map_bans_unchecked(tournament_state, action_type, selection) ==
    IF action_type \in {"MAP_BAN", "MAP_PICK"}
    THEN LET picked == FirstNamed(tournament_state.maps_picked, selection)
         IN  IF ~Contains(ALL_MAPS, selection)
             THEN Err(AssetNotFound(selection, "map"))
             ELSE IF picked # 0
             THEN Err(AssetAlreadyPicked(selection,
                                         tournament_state.maps_picked[picked].player))
             ELSE OkUnit
    ELSE IF action_type = "DECIDER"
    THEN LET picked_map_names == Names(tournament_state.maps_picked)
         IN  IF ~Contains(picked_map_names, selection)
             THEN Err(DeciderNotFromPickedMaps(selection, picked_map_names))
             ELSE OkUnit
    ELSE IF action_type \in {"AGENT_BAN", "AGENT_PICK"}
    THEN LET banned == FirstNamed(tournament_state.agents_banned, selection)
             picked == FirstPicked(tournament_state.agent_picks, selection)
         IN  IF ~Contains(ALL_AGENTS, selection)
             THEN Err(AssetNotFound(selection, "agent"))
             ELSE IF banned # 0
             THEN Err(AssetAlreadyBanned(selection,
                                         tournament_state.agents_banned[banned].player))
             ELSE IF picked # 0
             THEN Err(AssetAlreadyPicked(selection,
                                         tournament_state.agent_picks[picked][1]))
             ELSE OkUnit
    ELSE Err(UnknownActionType(action_type))

validate_asset_selection(tournament_state, action_type, selection) ==
    IF action_type \in {"MAP_BAN", "MAP_PICK"}
    THEN LET banned == FirstNamed(tournament_state.maps_banned, selection)
             picked == FirstNamed(tournament_state.maps_picked, selection)
         IN  IF ~Contains(ALL_MAPS, selection)
             THEN Err(AssetNotFound(selection, "map"))
             ELSE IF banned # 0
             THEN Err(AssetAlreadyBanned(selection,
                                         tournament_state.maps_banned[banned].player))
             ELSE IF picked # 0
             THEN Err(AssetAlreadyPicked(selection,
                                         tournament_state.maps_picked[picked].player))
             ELSE OkUnit
    ELSE IF action_type = "DECIDER"
    THEN LET picked_map_names == Names(tournament_state.maps_picked)
         IN  IF ~Contains(picked_map_names, selection)
             THEN Err(DeciderNotFromPickedMaps(selection, picked_map_names))
             ELSE OkUnit
    ELSE IF action_type \in {"AGENT_BAN", "AGENT_PICK"}
    THEN LET banned == FirstNamed(tournament_state.agents_banned, selection)
             \* agent_picks is iterated in the map's own order
             picked == FirstPicked(tournament_state.agent_picks, selection)
         IN  IF ~Contains(ALL_AGENTS, selection)
             THEN Err(AssetNotFound(selection, "agent"))
             ELSE IF banned # 0
             THEN Err(AssetAlreadyBanned(selection,
                                         tournament_state.agents_banned[banned].player))
             ELSE IF picked # 0
             THEN Err(AssetAlreadyPicked(selection,
                                         tournament_state.agent_picks[picked][1]))
             ELSE OkUnit
    ELSE Err(UnknownActionType(action_type))

\* validate_player_action with the phase check ahead of the event_started check
validate_player_action_phase_first(tournament_state, player_id, action, selection) ==
    IF tournament_state.current_phase = "CONCLUSION"
    THEN Err(TournamentCompleted)
    ELSE IF tournament_state.event_started # Some(TRUE)
    THEN Err(EventNotStarted)
    ELSE IF tournament_state.current_player = None
    THEN Err(InvalidPlayer(player_id, "valid player"))
    ELSE IF Unwrap(tournament_state.current_player) # player_id
    THEN Err(NotPlayerTurn(player_id, Unwrap(tournament_state.current_player)))
    ELSE LET expected_action == get_expected_action_type(tournament_state)
         IN  IF action = "BAN" /\ expected_action \notin {"MAP_BAN", "AGENT_BAN"}
             THEN Err(InvalidPhase(action, tournament_state.current_phase))
             ELSE IF action = "PICK" /\ expected_action \notin {"MAP_PICK", "AGENT_PICK"}
             THEN Err(InvalidPhase(action, tournament_state.current_phase))
             ELSE IF action = "DECIDER" /\ expected_action # "DECIDER"
             THEN Err(InvalidPhase(action, tournament_state.current_phase))
             ELSE IF action \notin {"BAN", "PICK", "DECIDER"}
             THEN Err(UnknownActionType(action))
             ELSE validate_asset_selection(tournament_state, expected_action, selection)

\* validate_player_action with the fields of NotPlayerTurn exchanged
validate_player_action_swapped_fields(tournament_state, player_id, action, selection) ==
    IF tournament_state.event_started # Some(TRUE)
    THEN Err(EventNotStarted)
    ELSE IF tournament_state.current_phase = "CONCLUSION"
    THEN Err(TournamentCompleted)
    ELSE IF tournament_state.current_player = None
    THEN Err(InvalidPlayer(player_id, "valid player"))
    ELSE IF Unwrap(tournament_state.current_player) # player_id
    THEN Err(NotPlayerTurn(Unwrap(tournament_state.current_player), player_id))
    ELSE LET expected_action == get_expected_action_type(tournament_state)
         IN  IF action = "BAN" /\ expected_action \notin {"MAP_BAN", "AGENT_BAN"}
             THEN Err(InvalidPhase(action, tournament_state.current_phase))
             ELSE IF action = "PICK" /\ expected_action \notin {"MAP_PICK", "AGENT_PICK"}
             THEN Err(InvalidPhase(action, tournament_state.current_phase))
             ELSE IF action = "DECIDER" /\ expected_action # "DECIDER"
             THEN Err(InvalidPhase(action, tournament_state.current_phase))
             ELSE IF action \notin {"BAN", "PICK", "DECIDER"}
             THEN Err(UnknownActionType(action))
             ELSE validate_asset_selection(tournament_state, expected_action, selection)

validate_player_action(tournament_state, player_id, action, selection) ==
    IF tournament_state.event_started # Some(TRUE)
    THEN Err(EventNotStarted)
    ELSE IF tournament_state.current_phase = "CONCLUSION"
    THEN Err(TournamentCompleted)
    ELSE IF tournament_state.current_player = None
    THEN Err(InvalidPlayer(player_id, "valid player"))
    ELSE IF Unwrap(tournament_state.current_player) # player_id
    THEN Err(NotPlayerTurn(player_id, Unwrap(tournament_state.current_player)))
    ELSE LET expected_action == get_expected_action_type(tournament_state)
         IN  IF action = "BAN" /\ expected_action \notin {"MAP_BAN", "AGENT_BAN"}
             THEN Err(InvalidPhase(action, tournament_state.current_phase))
             ELSE IF action = "PICK" /\ expected_action \notin {"MAP_PICK", "AGENT_PICK"}
             THEN Err(InvalidPhase(action, tournament_state.current_phase))
             ELSE IF action = "DECIDER" /\ expected_action # "DECIDER"
             THEN Err(InvalidPhase(action, tournament_state.current_phase))
             ELSE IF action \notin {"BAN", "PICK", "DECIDER"}
             THEN Err(UnknownActionType(action))
             ELSE validate_asset_selection(tournament_state, expected_action, selection)

(***************************************************************************)
(* The TournamentStates the controller pushes and the requests the         *)
(* participants send.                                                      *)
(***************************************************************************)
Phases == {"MAP_PHASE", "AGENT_PHASE", "CONCLUSION", "OTHER_PHASE"}
ActionNumbers == (0 - 1)..MaxActionNumber
ActionKinds == {"BAN", "PICK", "DECIDER", "SWAP"}
AssetNames == {"bind", "ascent", "jett", "sage", "invalid_map"}

\* The requests of the server specification
ServerActionKinds == {"BAN", "DECIDER"}
ServerAssetNames == {"bind", "ascent"}

AssetSelection(name, player) == [name |-> name, player |-> player]

\* create_test_tournament_state of the validator's tests
BaseState ==
    [current_phase |-> "MAP_PHASE", current_player |-> Some("P1"),
     action_number |-> 1, first_player |-> "P1", event_started |-> Some(TRUE),
     team_names |-> <<>>, maps_banned |-> <<>>, maps_picked |-> <<>>,
     decider_map |-> None, agents_banned |-> <<>>, agent_picks |-> <<>>,
     timer_state |-> "running", timer_seconds |-> 30,
     pending_selection |-> None, revealed_actions |-> <<>>,
     action_history |-> <<>>]

\* A state with one entry in every list.
PopulatedState ==
    [BaseState EXCEPT !.maps_banned = <<AssetSelection("bind", "P1")>>,
                      !.maps_picked = <<AssetSelection("ascent", "P2")>>,
                      !.agents_banned = <<AssetSelection("jett", "P1")>>,
                      !.agent_picks = << <<"P2", Some("sage")>> >>]

\* Every phase, turn owner, action number and event_started value.
GateStates ==
    {[b EXCEPT !.current_phase = ph, !.current_player = cp,
               !.action_number = an, !.event_started = es] :
        b \in {BaseState, PopulatedState}, ph \in Phases,
        cp \in {None} \cup {Some(r) : r \in Roles}, an \in ActionNumbers,
        es \in {None, Some(FALSE), Some(TRUE)}}

BannedMapEntries ==
    {AssetSelection("bind", "P1"), AssetSelection("bind", "P2"),
     AssetSelection("haven", "P1")}
PickedMapEntries ==
    {AssetSelection("bind", "P1"), AssetSelection("ascent", "P2"),
     AssetSelection("ascent", "P1")}

\* The map phase with every ban list and pick list over the entries above.
MapStates ==
    {[BaseState EXCEPT !.current_player = Some(r), !.action_number = an,
                       !.maps_banned = mb, !.maps_picked = mp] :
        r \in Roles, an \in {1, 7, 9},
        mb \in SeqUpTo(BannedMapEntries, MaxBanned),
        mp \in SeqUpTo(PickedMapEntries, MaxPicked)}

BannedAgentEntries ==
    {AssetSelection("jett", "P1"), AssetSelection("jett", "P2"),
     AssetSelection("omen", "P1")}

\* agent_picks in each iteration order: no key, one key, both keys
AgentPickMaps ==
    LET vals == {None, Some("jett"), Some("sage")}
    IN  {<<>>}
        \cup {<< <<r, v>> >> : r \in Roles, v \in vals}
        \cup {<< <<k[1], v>>, <<k[2], w>> >> :
                k \in {<<"P1", "P2">>, <<"P2", "P1">>}, v \in vals, w \in vals}

\* The agent phase with every ban list and every pick map.
AgentStates ==
    {[BaseState EXCEPT !.current_phase = "AGENT_PHASE",
                       !.current_player = Some(r), !.action_number = an,
                       !.agents_banned = ab, !.agent_picks = ap] :
        r \in Roles, an \in {1, 16},
        ab \in SeqUpTo(BannedAgentEntries, MaxBanned),
        ap \in AgentPickMaps}

ValidatorStates == GateStates \cup MapStates \cup AgentStates

TournamentAction(action_number, player, action_type, selection, timestamp) ==
    [action_number |-> action_number, player |-> player,
     action_type |-> action_type, selection |-> selection, timestamp |-> timestamp]

\* A draft under way: team names set, a decider chosen, a history of every
\* action type and of one the projection does not know.
HistoryStates ==
    {[PopulatedState EXCEPT
        !.current_phase = ph, !.action_number = an,
        !.team_names = [r \in Roles |-> IF r = "P1" THEN "Team Alpha" ELSE "Team Beta"],
        !.decider_map = dm,
        !.action_history =
            <<TournamentAction(1, "P1", "MAP_BAN", "bind", 1700000000),
              TournamentAction(7, "P2", "MAP_PICK", "ascent", 1700000001),
              TournamentAction(9, "P1", "DECIDER", "ascent", 1700000002),
              TournamentAction(10, "P1", "AGENT_BAN", "jett", 1700000003),
              TournamentAction(16, "P2", "AGENT_PICK", "sage", 1700000004),
              TournamentAction(17, "P1", "SWAP", "omen", 1700000005)>>] :
        ph \in Phases, an \in ActionNumbers, dm \in {None, Some("ascent")}}

\* States that differ from one another only in the fields the controller keeps
\* to itself: pending_selection, revealed_actions, first_player, event_started
ControllerOnlyStates ==
    {[b EXCEPT !.pending_selection = ps, !.revealed_actions = ra,
               !.first_player = fp, !.event_started = es] :
        b \in {PopulatedState,
               [PopulatedState EXCEPT !.current_phase = "AGENT_PHASE",
                                      !.action_number = 16]},
        ps \in {None, Some("haven"), Some("omen")},
        ra \in {<<>>, <<1, 2>>},
        fp \in Roles,
        es \in {None, Some(FALSE), Some(TRUE)}}

\* The states whose projection is examined.
ProjectionStates == ValidatorStates \cup HistoryStates \cup ControllerOnlyStates

\* The states the controller broadcasts in the server specification.
BroadcastStates ==
    {BaseState,
     [BaseState EXCEPT !.event_started = Some(FALSE)],
     [PopulatedState EXCEPT !.current_player = Some("P2")],
     [PopulatedState EXCEPT !.action_number = 9],
     [PopulatedState EXCEPT !.current_phase = "AGENT_PHASE", !.action_number = 16]}

(***************************************************************************)
(* The projection for participants (tournament_broadcast.rs).              *)
(***************************************************************************)
PlayerAsset(asset) == [name |-> asset.name, player |-> asset.player]

\* HashMap::get(key).and_then(|x| x.clone()) on agent_picks
PickOf(picks, key) ==
    IF \E i \in 1..Len(picks) : picks[i][1] = key
    THEN picks[CHOOSE i \in 1..Len(picks) : picks[i][1] = key][2]
    ELSE None

\* The participant-facing phase label of transform_for_players
PlayerPhase(admin_state) ==
    IF admin_state.current_phase = "MAP_PHASE"
    THEN IF admin_state.action_number <= 6 THEN "MAP_BAN"
         ELSE IF admin_state.action_number <= 8 THEN "MAP_PICK"
         ELSE IF admin_state.action_number = 9 THEN "DECIDER"
         ELSE "MAP_PHASE"
    ELSE IF admin_state.current_phase = "AGENT_PHASE"
    THEN IF admin_state.action_number <= 15 THEN "AGENT_BAN"
         ELSE "AGENT_PICK"
    ELSE admin_state.current_phase

\* current_action of transform_for_players
CurrentAction(phase) ==
    IF phase \in {"MAP_BAN", "AGENT_BAN"} THEN Some("BAN")
    ELSE IF phase \in {"MAP_PICK", "AGENT_PICK"} THEN Some("PICK")
    ELSE IF phase = "DECIDER" THEN Some("DECIDER")
    ELSE None

\* One entry of action_history as participants see it
PlayerAction(action) ==
    [player |-> action.player,
     action |-> IF action.action_type \in {"MAP_BAN", "AGENT_BAN"} THEN "BAN"
                ELSE IF action.action_type \in {"MAP_PICK", "AGENT_PICK"} THEN "PICK"
                ELSE IF action.action_type = "DECIDER" THEN "DECIDER"
                ELSE "BAN",
     selection |-> action.selection,
     timestamp |-> action.timestamp]

\* A projection whose output depends on the step run before it: the time
\* remaining is taken to have run down by a second after a turn notification
transform_for_players_runs_down(admin_state) ==
    LET phase == PlayerPhase(admin_state)
    IN  [phase |-> phase,
         current_player |-> admin_state.current_player,
         current_action |-> CurrentAction(phase),
         maps |-> Some([banned |-> [i \in 1..Len(admin_state.maps_banned) |->
                                      PlayerAsset(admin_state.maps_banned[i])],
                        picked |-> [i \in 1..Len(admin_state.maps_picked) |->
                                      PlayerAsset(admin_state.maps_picked[i])],
                        decider |-> admin_state.decider_map]),
         agents |-> Some([banned |-> [i \in 1..Len(admin_state.agents_banned) |->
                                        PlayerAsset(admin_state.agents_banned[i])],
                          p1_pick |-> PickOf(admin_state.agent_picks, "P1"),
                          p2_pick |-> PickOf(admin_state.agent_picks, "P2")]),
         action_history |-> Some([i \in 1..Len(admin_state.action_history) |->
                                    PlayerAction(admin_state.action_history[i])]),
         timer_state |-> admin_state.timer_state,
         time_remaining |-> IF last.op = "send_turn_start"
                            THEN admin_state.timer_seconds - 1
                            ELSE admin_state.timer_seconds,
         team_names |-> Some(admin_state.team_names),
         turn_number |-> admin_state.action_number]

\* A projection that shows the selection still pending as the decider while no
\* decider is set
transform_for_players_shows_pending(admin_state) ==
    LET phase == PlayerPhase(admin_state)
    IN  [phase |-> phase,
         current_player |-> admin_state.current_player,
         current_action |-> CurrentAction(phase),
         maps |-> Some([banned |-> [i \in 1..Len(admin_state.maps_banned) |->
                                      PlayerAsset(admin_state.maps_banned[i])],
                        picked |-> [i \in 1..Len(admin_state.maps_picked) |->
                                      PlayerAsset(admin_state.maps_picked[i])],
                        decider |-> IF IsSome(admin_state.decider_map)
                                    THEN admin_state.decider_map
                                    ELSE admin_state.pending_selection]),
         agents |-> Some([banned |-> [i \in 1..Len(admin_state.agents_banned) |->
                                        PlayerAsset(admin_state.agents_banned[i])],
                          p1_pick |-> PickOf(admin_state.agent_picks, "P1"),
                          p2_pick |-> PickOf(admin_state.agent_picks, "P2")]),
         action_history |-> Some([i \in 1..Len(admin_state.action_history) |->
                                    PlayerAction(admin_state.action_history[i])]),
         timer_state |-> admin_state.timer_state,
         time_remaining |-> admin_state.timer_seconds,
         team_names |-> Some(admin_state.team_names),
         turn_number |-> admin_state.action_number]

transform_for_players(admin_state) ==
    LET phase == PlayerPhase(admin_state)
    IN  [phase |-> phase,
         current_player |-> admin_state.current_player,
         current_action |-> CurrentAction(phase),
         maps |-> Some([banned |-> [i \in 1..Len(admin_state.maps_banned) |->
                                      PlayerAsset(admin_state.maps_banned[i])],
                        picked |-> [i \in 1..Len(admin_state.maps_picked) |->
                                      PlayerAsset(admin_state.maps_picked[i])],
                        decider |-> admin_state.decider_map]),
         agents |-> Some([banned |-> [i \in 1..Len(admin_state.agents_banned) |->
                                        PlayerAsset(admin_state.agents_banned[i])],
                          p1_pick |-> PickOf(admin_state.agent_picks, "P1"),
                          p2_pick |-> PickOf(admin_state.agent_picks, "P2")]),
         action_history |-> Some([i \in 1..Len(admin_state.action_history) |->
                                    PlayerAction(admin_state.action_history[i])]),
         timer_state |-> admin_state.timer_state,
         time_remaining |-> admin_state.timer_seconds,
         team_names |-> Some(admin_state.team_names),
         turn_number |-> admin_state.action_number]

\* iter().filter(keep).collect(): the entries of seq that satisfy keep, in order
RECURSIVE Without(_, _)
Without(seq, excluded) ==
    IF seq = <<>> THEN <<>>
    ELSE IF Head(seq) \in excluded THEN Without(Tail(seq), excluded)
    ELSE <<Head(seq)>> \o Without(Tail(seq), excluded)

\* agent_picks.values().filter_map(|pick| pick.clone()), as a set: the result is
\* only tested for membership
PickedAgents(picks) ==
    {Unwrap(picks[i][2]) : i \in {j \in 1..Len(picks) : IsSome(picks[j][2])}}

\* get_available_options that leaves the picked names among the options
get_available_options_keeps_picked(admin_state) ==
    IF admin_state.current_phase = "MAP_PHASE"
    THEN IF admin_state.action_number = 9
         THEN Names(admin_state.maps_picked)
         ELSE Without(ALL_MAPS,
                      {admin_state.maps_banned[i].name :
                          i \in 1..Len(admin_state.maps_banned)})
    ELSE IF admin_state.current_phase = "AGENT_PHASE"
    THEN Without(ALL_AGENTS,
                 {admin_state.agents_banned[i].name :
                     i \in 1..Len(admin_state.agents_banned)})
    ELSE <<>>

get_available_options(admin_state) ==
    IF admin_state.current_phase = "MAP_PHASE"
    THEN IF admin_state.action_number = 9
         THEN Names(admin_state.maps_picked)
         ELSE Without(ALL_MAPS,
                      {admin_state.maps_banned[i].name :
                          i \in 1..Len(admin_state.maps_banned)}
                      \cup {admin_state.maps_picked[i].name :
                               i \in 1..Len(admin_state.maps_picked)})
    ELSE IF admin_state.current_phase = "AGENT_PHASE"
    THEN Without(ALL_AGENTS,
                 {admin_state.agents_banned[i].name :
                     i \in 1..Len(admin_state.agents_banned)}
                 \cup PickedAgents(admin_state.agent_picks))
    ELSE <<>>

create_turn_start_event(admin_state, target_player, available_options, time_limit) ==
    LET phase ==
            IF admin_state.current_phase = "MAP_PHASE"
            THEN IF admin_state.action_number <= 6 THEN "MAP_BAN"
                 ELSE IF admin_state.action_number <= 8 THEN "MAP_PICK"
                 ELSE "DECIDER"
            ELSE IF admin_state.current_phase = "AGENT_PHASE"
            THEN IF admin_state.action_number <= 15 THEN "AGENT_BAN"
                 ELSE "AGENT_PICK"
            ELSE "BAN"
        action ==
            IF phase \in {"MAP_BAN", "AGENT_BAN"} THEN "BAN"
            ELSE IF phase \in {"MAP_PICK", "AGENT_PICK"} THEN "PICK"
            ELSE IF phase = "DECIDER" THEN "DECIDER"
            ELSE "BAN"
    IN  [player |-> target_player, time_limit |-> time_limit, phase |-> phase,
         action |-> action, available_options |-> available_options,
         tournament_state |-> transform_for_players(admin_state)]

(***************************************************************************)
(* TimerState (timer/state.rs).                                            *)
(***************************************************************************)
DEV_TIMER_SECONDS == 3

\* The run_timer_loop tasks alive at once
MaxLoops == 2
LoopIds == 1..MaxLoops

\* No task in a slot of loops
NoLoop == [pc |-> "none", signalled |-> FALSE]

\* TimerState::new: the fields; the stop channel starts with nothing sent
TimerState_new(initial_seconds) ==
    [status |-> "Ready", seconds |-> initial_seconds,
     initial_seconds |-> initial_seconds]

\* TimerState::snapshot
snapshot(t) ==
    [status |-> t.status, seconds |-> t.seconds,
     initial_seconds |-> t.initial_seconds]

\* TimerState::reset that leaves initial_seconds as it was
reset_keeps_initial(t, seconds) ==
    LET new_seconds == IF IsSome(seconds) THEN Unwrap(seconds) ELSE t.initial_seconds
    IN  [status |-> "Ready", seconds |-> new_seconds,
         initial_seconds |-> t.initial_seconds]

\* TimerState::reset: the fields.  Its stop signal and its new stop channel are
\* in reset_timer.
reset(t, seconds) ==
    LET new_seconds == IF IsSome(seconds) THEN Unwrap(seconds) ELSE t.initial_seconds
    IN  [status |-> "Ready", seconds |-> new_seconds,
         initial_seconds |-> new_seconds]

\* TimerState::send_stop_signal: every receiver cloned from the channel so far
\* sees a change
send_stop_signal(ls) ==
    [l \in DOMAIN ls |->
        IF ls[l].pc \in {"waiting", "ticking"}
        THEN [ls[l] EXCEPT !.signalled = TRUE]
        ELSE ls[l]]

\* A task as the holder of a tokio Mutex
Task(kind, socket_id, player_name) ==
    [kind |-> kind, socket_id |-> socket_id, player_name |-> player_name]

\* The controller's get_status call; the commands' lock on the server lets one
\* run at a time
StatusQuery == Task("get_status", 0, "")

\* Arc::new(Mutex::new(..)) for status and player_manager: nobody holds them
MutexInit == mutex = [status |-> None, player_manager |-> None]

\* The managed TimerState after construction, with no loop spawned
TimerInit ==
    /\ timer = TimerState_new(DEV_TIMER_SECONDS)
    /\ stop_sent = FALSE
    /\ loops = [l \in LoopIds |-> NoLoop]
    /\ run = [from_ready |-> FALSE, ticks |-> 0]

(***************************************************************************)
(* TournamentServer (services/socket_server.rs).                           *)
(***************************************************************************)
ErrAlreadyRunning == "Server is already running"
ErrBind == "Failed to bind to port"
ErrNotRunning == "Server is not running"

Emit(to, event, data) == [to |-> to, event |-> event, data |-> data]

Op(op, args, result, emits) ==
    [op |-> op, args |-> args, result |-> result, emits |-> emits]

\* TournamentServer::new
Init ==
    /\ players = PlayerManager_new.players
    /\ assignments = PlayerManager_new.assignments
    /\ status = [running |-> FALSE, port |-> 0, player_count |-> 0]
    /\ io = None
    /\ server_handle = None
    /\ current_tournament_state = None
    /\ validated_actions = <<>>
    /\ connections = [s \in SocketIds |-> "closed"]
    /\ join_tasks = {}
    /\ TimerInit
    /\ MutexInit
    /\ last = Op("new", <<>>, <<>>, <<>>)

\* A start that writes the status before it checks the running flag
start_writes_status_first(port, bind_ok) ==
    \/ /\ status.running
       /\ status' = [running |-> TRUE, port |-> port, player_count |-> 0]
       /\ last' = Op("start", [port |-> port], Err(ErrAlreadyRunning), <<>>)
       /\ UNCHANGED <<players, assignments, io, server_handle,
                      current_tournament_state, validated_actions, join_tasks, timer_vars, lock_vars, connections>>
    \/ /\ ~status.running
       /\ ~bind_ok
       /\ status' = [running |-> TRUE, port |-> port, player_count |-> 0]
       /\ last' = Op("start", [port |-> port], Err(ErrBind), <<>>)
       /\ UNCHANGED <<players, assignments, io, server_handle,
                      current_tournament_state, validated_actions, join_tasks, timer_vars, lock_vars, connections>>
    \/ /\ ~status.running
       /\ bind_ok
       /\ status' = [running |-> TRUE, port |-> port, player_count |-> 0]
       /\ server_handle' = Some("serve")
       /\ io' = Some("io")
       /\ last' = Op("start", [port |-> port], Ok("Server started"), <<>>)
       /\ UNCHANGED <<players, assignments, current_tournament_state,
                      validated_actions, join_tasks, timer_vars, lock_vars, connections>>

\* TournamentServer::start; bind_ok is whether TcpListener::bind succeeds
start(port, bind_ok) ==
    \/ /\ status.running
       /\ last' = Op("start", [port |-> port], Err(ErrAlreadyRunning), <<>>)
       /\ UNCHANGED <<players, assignments, status, io, server_handle,
                      current_tournament_state, validated_actions, join_tasks, timer_vars, lock_vars, connections>>
    \/ /\ ~status.running
       /\ ~bind_ok
       /\ last' = Op("start", [port |-> port], Err(ErrBind), <<>>)
       /\ UNCHANGED <<players, assignments, status, io, server_handle,
                      current_tournament_state, validated_actions, join_tasks, timer_vars, lock_vars, connections>>
    \/ /\ ~status.running
       /\ bind_ok
       /\ status' = [running |-> TRUE, port |-> port, player_count |-> 0]
       /\ server_handle' = Some("serve")
       /\ io' = Some("io")
       /\ last' = Op("start", [port |-> port], Ok("Server started"), <<>>)
       /\ UNCHANGED <<players, assignments, current_tournament_state,
                      validated_actions, join_tasks, timer_vars, lock_vars, connections>>

\* TournamentServer::stop.  The sockets already accepted are not closed by it.
stop ==
    LET pm == disconnect_all_players(pm_now)
    IN  /\ status' = [status EXCEPT !.running = FALSE, !.player_count = 0]
        /\ players' = pm.players
        /\ assignments' = pm.assignments
        /\ server_handle' = None
        /\ io' = None
        /\ last' = Op("stop", <<>>, Ok("Server stopped"), <<>>)
        /\ UNCHANGED <<current_tournament_state, validated_actions, join_tasks, timer_vars, lock_vars, connections>>

\* The join tasks spawned for a socket's "player-join" events and not yet run
JoinTasksOf(socket_id) == {t \in join_tasks : t.socket_id = socket_id}

\* A client connects: the namespace handler registers the socket's handlers.
\* Every connection gets a fresh socket id: an id is used again only once no
\* record and no task refers to it.
connect(socket_id) ==
    /\ IsSome(server_handle)
    /\ connections[socket_id] = "closed"
    /\ socket_id \notin DOMAIN players
    /\ JoinTasksOf(socket_id) = {}
    /\ connections' = [connections EXCEPT ![socket_id] = "open"]
    /\ last' = Op("connect", [socket |-> socket_id], <<>>, <<>>)
    /\ UNCHANGED <<players, assignments, status, io, server_handle,
                   current_tournament_state, validated_actions, join_tasks, timer_vars, lock_vars>>

\* The "player-join" handler: it spawns the task that registers the player.
on_player_join(socket_id, player_name) ==
    LET task == [socket_id |-> socket_id, player_name |-> player_name]
    IN  /\ connections[socket_id] = "open"
        /\ task \notin join_tasks
        /\ Cardinality(join_tasks) < MaxJoinTasks
        /\ join_tasks' = join_tasks \cup {task}
        /\ last' = Op("on_player_join",
                      [socket |-> socket_id, player_name |-> player_name],
                      <<>>, <<>>)
        /\ UNCHANGED <<players, assignments, status, io, server_handle,
                       current_tournament_state, validated_actions, connections,
                       timer_vars, lock_vars>>

\* A join handler that reports a failed join but leaves the connection open
player_join_keeps_open(socket_id, player_name) ==
    LET r == add_player(pm_now, player_name, socket_id)
        task == [socket_id |-> socket_id, player_name |-> player_name]
    IN  /\ task \in join_tasks
        /\ join_tasks' = join_tasks \ {task}
        /\ players' = r.pm.players
        /\ assignments' = r.pm.assignments
        /\ connections' = connections
        /\ IF r.result.ok
           THEN /\ status' = [status EXCEPT !.player_count = get_connected_count(r.pm)]
                /\ last' = Op("player-join",
                              [socket |-> socket_id, player_name |-> player_name],
                              r.result,
                              <<Emit(socket_id, "player-assigned",
                                     [playerId |-> r.result.value.player_id])>>)
           ELSE /\ status' = status
                /\ last' = Op("player-join",
                              [socket |-> socket_id, player_name |-> player_name],
                              r.result,
                              <<Emit(socket_id, "error",
                                     [message |-> r.result.error,
                                      code |-> "ASSIGNMENT_FAILED"])>>)
        /\ UNCHANGED <<io, server_handle, current_tournament_state,
                       validated_actions, timer_vars, lock_vars>>

\* The task spawned by the "player-join" handler.  It runs whenever the runtime
\* schedules it, whether or not the socket is still connected.
player_join(socket_id, player_name) ==
    LET r == add_player(pm_now, player_name, socket_id)
        task == [socket_id |-> socket_id, player_name |-> player_name]
    IN  /\ task \in join_tasks
        /\ join_tasks' = join_tasks \ {task}
        /\ players' = r.pm.players
        /\ assignments' = r.pm.assignments
        /\ IF r.result.ok
           THEN /\ status' = [status EXCEPT !.player_count = get_connected_count(r.pm)]
                /\ connections' = connections
                /\ last' = Op("player-join",
                              [socket |-> socket_id, player_name |-> player_name],
                              r.result,
                              <<Emit(socket_id, "player-assigned",
                                     [playerId |-> r.result.value.player_id])>>)
           ELSE /\ status' = status
                \* socket.disconnect(): the on_disconnect handler is now due,
                \* unless the socket was closed before
                /\ connections' =
                      IF connections[socket_id] = "open"
                      THEN [connections EXCEPT ![socket_id] = "closing"]
                      ELSE connections
                /\ last' = Op("player-join",
                              [socket |-> socket_id, player_name |-> player_name],
                              r.result,
                              <<Emit(socket_id, "error",
                                     [message |-> r.result.error,
                                      code |-> "ASSIGNMENT_FAILED"])>>)
        /\ UNCHANGED <<io, server_handle, current_tournament_state,
                       validated_actions, timer_vars, lock_vars>>

\* The client, or the transport, closes the connection.
disconnect(socket_id) ==
    /\ connections[socket_id] = "open"
    /\ connections' = [connections EXCEPT ![socket_id] = "closing"]
    /\ last' = Op("disconnect", [socket |-> socket_id], <<>>, <<>>)
    /\ UNCHANGED <<players, assignments, status, io, server_handle,
                   current_tournament_state, validated_actions, join_tasks, timer_vars, lock_vars>>

\* The on_disconnect handler task
on_disconnect(socket_id) ==
    LET r == remove_player_by_socket(pm_now, socket_id)
    IN  /\ connections[socket_id] = "closing"
        /\ connections' = [connections EXCEPT ![socket_id] = "closed"]
        /\ players' = r.pm.players
        /\ assignments' = r.pm.assignments
        /\ status' = [status EXCEPT !.player_count = get_connected_count(r.pm)]
        /\ last' = Op("on_disconnect", [socket |-> socket_id], r.result, <<>>)
        /\ UNCHANGED <<io, server_handle, current_tournament_state, validated_actions, join_tasks, timer_vars, lock_vars>>

\* ValidationError::to_error_message: the message template and the values
\* formatted into it
to_error_message(e) ==
    CASE e.variant = "InvalidPlayer" ->
            <<"Invalid player '{}'. Expected '{}'.", e.received, e.expected>>
      [] e.variant = "NotPlayerTurn" ->
            <<"Not your turn. Player '{}' submitted action, but it's {}'s turn.",
              e.received, e.current>>
      [] e.variant = "EventNotStarted" ->
            <<"Tournament has not started yet. Wait for the admin to start the event.">>
      [] e.variant = "InvalidPhase" ->
            <<"Invalid action '{}' for current phase '{}'. Check the tournament progression.",
              e.action, e.current_phase>>
      [] e.variant = "AssetNotFound" ->
            <<"Unknown {} '{}'. Please select from available options.",
              e.asset_type, e.asset>>
      [] e.variant = "AssetAlreadyBanned" ->
            <<"'{}' was already banned by {}. Choose a different option.",
              e.asset, e.player>>
      [] e.variant = "AssetAlreadyPicked" ->
            <<"'{}' was already picked by {}. Choose a different option.",
              e.asset, e.player>>
      [] e.variant = "DeciderNotFromPickedMaps" ->
            <<"Decider map '{}' must be selected from picked maps: {}. Please choose from the available options.",
              e.asset, e.picked_maps>>
      [] e.variant = "UnknownActionType" ->
            <<"Unknown action type '{}'. Valid actions are BAN, PICK, DECIDER.", e.action>>
      [] e.variant = "TournamentCompleted" ->
            <<"Tournament has already completed. No further actions are allowed.">>

ActionResponse(success, error) == [success |-> success, error |-> error]

ValidatedPlayerAction(player, action, selection, timestamp, socket_id) ==
    [player |-> player, action |-> action, selection |-> selection,
     timestamp |-> timestamp, socket_id |-> socket_id]

Timestamps == {1700000000}

\* A handler that accepts a request when no TournamentState has been stored
handle_player_action_accepts_unstored(pm, tournament_state, socket_id, data) ==
    LET player == get_player_by_socket(pm, socket_id)
    IN  IF player = None
        THEN [validation |-> None, validated_action |-> None,
              response |-> ActionResponse(FALSE,
                  Some(<<"Player not connected. Please reconnect to the tournament.">>))]
        ELSE IF Unwrap(player).player_id = None
        THEN [validation |-> None, validated_action |-> None,
              response |-> ActionResponse(FALSE,
                  Some(<<"Player assignment required. Please reconnect.">>))]
        ELSE IF tournament_state = None
        THEN [validation |-> None, validated_action |-> None,
              response |-> ActionResponse(TRUE, None)]
        ELSE LET player_id == Unwrap(Unwrap(player).player_id)
                 v == validate_player_action(Unwrap(tournament_state), player_id,
                                             data.action, data.selection)
             IN  IF v.ok
                 THEN [validation |-> Some(v),
                       validated_action |->
                           Some(ValidatedPlayerAction(player_id, data.action,
                                                      data.selection, data.timestamp,
                                                      socket_id)),
                       response |-> ActionResponse(TRUE, None)]
                 ELSE [validation |-> Some(v), validated_action |-> None,
                       response |-> ActionResponse(FALSE,
                                                   Some(to_error_message(v.error)))]

\* What the "player-action" handler task computes: the validation it ran (if
\* any), the ValidatedPlayerAction it built (if any) and the response it emits.
handle_player_action(pm, tournament_state, socket_id, data) ==
    LET player == get_player_by_socket(pm, socket_id)
    IN  IF player = None
        THEN [validation |-> None, validated_action |-> None,
              response |-> ActionResponse(FALSE,
                  Some(<<"Player not connected. Please reconnect to the tournament.">>))]
        ELSE IF Unwrap(player).player_id = None
        THEN [validation |-> None, validated_action |-> None,
              response |-> ActionResponse(FALSE,
                  Some(<<"Player assignment required. Please reconnect.">>))]
        ELSE IF tournament_state = None
        THEN [validation |-> None, validated_action |-> None,
              response |-> ActionResponse(FALSE,
                  Some(<<"Tournament state not available. Please wait for tournament to start.">>))]
        ELSE LET player_id == Unwrap(Unwrap(player).player_id)
                 v == validate_player_action(Unwrap(tournament_state), player_id,
                                             data.action, data.selection)
             IN  IF v.ok
                 THEN [validation |-> Some(v),
                       validated_action |->
                           Some(ValidatedPlayerAction(player_id, data.action,
                                                      data.selection, data.timestamp,
                                                      socket_id)),
                       response |-> ActionResponse(TRUE, None)]
                 ELSE [validation |-> Some(v), validated_action |-> None,
                       response |-> ActionResponse(FALSE,
                                                   Some(to_error_message(v.error)))]

\* A "player-action" handler that folds an accepted action into the stored state
player_action_folds(socket_id, action, selection, timestamp) ==
    LET data == [action |-> action, selection |-> selection, timestamp |-> timestamp]
        h == handle_player_action(pm_now, current_tournament_state, socket_id, data)
        st == Unwrap(current_tournament_state)
    IN  /\ connections[socket_id] = "open"
        /\ last' = Op("player-action", [socket |-> socket_id, data |-> data],
                      [validation |-> h.validation,
                       validated_action |-> h.validated_action],
                      <<Emit(socket_id, "action-result", h.response)>>)
        /\ current_tournament_state' =
              IF h.response.success
              THEN Some([st EXCEPT !.action_number = @ + 1,
                                   !.current_player = None])
              ELSE current_tournament_state
        /\ UNCHANGED <<players, assignments, status, io, server_handle,
                       validated_actions, join_tasks, timer_vars, lock_vars, connections>>

\* A handler that takes the turn away once it has accepted an action
player_action_takes_turn(socket_id, action, selection, timestamp) ==
    LET data == [action |-> action, selection |-> selection, timestamp |-> timestamp]
        h == handle_player_action(pm_now, current_tournament_state, socket_id, data)
    IN  /\ connections[socket_id] = "open"
        /\ last' = Op("player-action", [socket |-> socket_id, data |-> data],
                      [validation |-> h.validation,
                       validated_action |-> h.validated_action],
                      <<Emit(socket_id, "action-result", h.response)>>)
        /\ current_tournament_state' =
              IF h.response.success
              THEN Some([Unwrap(current_tournament_state) EXCEPT
                            !.current_player = None])
              ELSE current_tournament_state
        /\ UNCHANGED <<players, assignments, status, io, server_handle,
                       validated_actions, join_tasks, timer_vars, lock_vars, connections>>

\* The "player-action" handler task.  It writes none of the server's fields: the
\* ValidatedPlayerAction it builds is only logged.
player_action(socket_id, action, selection, timestamp) ==
    LET data == [action |-> action, selection |-> selection, timestamp |-> timestamp]
        h == handle_player_action(pm_now, current_tournament_state, socket_id, data)
    IN  /\ connections[socket_id] = "open"
        /\ last' = Op("player-action", [socket |-> socket_id, data |-> data],
                      [validation |-> h.validation,
                       validated_action |-> h.validated_action],
                      <<Emit(socket_id, "action-result", h.response)>>)
        /\ UNCHANGED <<players, assignments, status, io, server_handle,
                       current_tournament_state, validated_actions, join_tasks, timer_vars, lock_vars, connections>>

\* A broadcast that stores the state even though the session is not running
broadcast_tournament_state_stores_when_stopped(state) ==
    \/ /\ IsSome(io)
       /\ current_tournament_state' = Some(state)
       /\ last' = Op("broadcast_tournament_state", [state |-> state], OkUnit,
                     <<Emit("all", "game-state-update", transform_for_players(state))>>)
       /\ UNCHANGED <<players, assignments, status, io, server_handle,
                      validated_actions, join_tasks, timer_vars, lock_vars, connections>>
    \/ /\ ~IsSome(io)
       /\ current_tournament_state' = Some(state)
       /\ last' = Op("broadcast_tournament_state", [state |-> state],
                     Err(ErrNotRunning), <<>>)
       /\ UNCHANGED <<players, assignments, status, io, server_handle,
                      validated_actions, join_tasks, timer_vars, lock_vars, connections>>

\* TournamentServer::broadcast_tournament_state
broadcast_tournament_state(state) ==
    \/ /\ IsSome(io)
       /\ current_tournament_state' = Some(state)
       /\ last' = Op("broadcast_tournament_state", [state |-> state], OkUnit,
                     <<Emit("all", "game-state-update", transform_for_players(state))>>)
       /\ UNCHANGED <<players, assignments, status, io, server_handle,
                      validated_actions, join_tasks, timer_vars, lock_vars, connections>>
    \/ /\ ~IsSome(io)
       /\ last' = Op("broadcast_tournament_state", [state |-> state],
                     Err(ErrNotRunning), <<>>)
       /\ UNCHANGED <<players, assignments, status, io, server_handle,
                      current_tournament_state, validated_actions, join_tasks, timer_vars, lock_vars, connections>>

ErrPlayerNotConnected(target_player) == <<"Player {} not connected", target_player>>

\* TournamentServer::send_turn_start
send_turn_start(tournament_state, target_player, time_limit) ==
    LET args == [tournament_state |-> tournament_state,
                 target_player |-> target_player, time_limit |-> time_limit]
        socket_id == get_socket_for_player(pm_now, target_player)
    IN  \/ /\ IsSome(io)
           /\ IsSome(socket_id)
           /\ last' = Op("send_turn_start", args, OkUnit,
                         <<Emit(Unwrap(socket_id), "turn-start",
                                create_turn_start_event(
                                    tournament_state, target_player,
                                    get_available_options(tournament_state),
                                    time_limit))>>)
           /\ UNCHANGED <<server_vars, timer_vars, lock_vars>>
        \/ /\ IsSome(io)
           /\ ~IsSome(socket_id)
           /\ last' = Op("send_turn_start", args,
                         Err(ErrPlayerNotConnected(target_player)), <<>>)
           /\ UNCHANGED <<server_vars, timer_vars, lock_vars>>
        \/ /\ ~IsSome(io)
           /\ last' = Op("send_turn_start", args, Err(ErrNotRunning), <<>>)
           /\ UNCHANGED <<server_vars, timer_vars, lock_vars>>

TimerControlEvent(action, time_remaining) ==
    [action |-> action, time_remaining |-> time_remaining]

\* TournamentServer::send_timer_control
send_timer_control(control) ==
    \/ /\ IsSome(io)
       /\ last' = Op("send_timer_control", [control |-> control], OkUnit,
                     <<Emit("all", "timer-control", control)>>)
       /\ UNCHANGED <<server_vars, timer_vars, lock_vars>>
    \/ /\ ~IsSome(io)
       /\ last' = Op("send_timer_control", [control |-> control],
                     Err(ErrNotRunning), <<>>)
       /\ UNCHANGED <<server_vars, timer_vars, lock_vars>>

\* TournamentServer::send_tournament_start
send_tournament_start(tournament_state) ==
    \/ /\ IsSome(io)
       /\ last' = Op("send_tournament_start", [tournament_state |-> tournament_state],
                     OkUnit,
                     <<Emit("all", "tournament-start",
                            transform_for_players(tournament_state))>>)
       /\ UNCHANGED <<server_vars, timer_vars, lock_vars>>
    \/ /\ ~IsSome(io)
       /\ last' = Op("send_tournament_start", [tournament_state |-> tournament_state],
                     Err(ErrNotRunning), <<>>)
       /\ UNCHANGED <<server_vars, timer_vars, lock_vars>>

TournamentResults(winner, final_map, final_agents, duration, summary) ==
    [winner |-> winner, final_map |-> final_map, final_agents |-> final_agents,
     duration |-> duration, summary |-> summary]

\* TournamentServer::send_tournament_end
send_tournament_end(results) ==
    \/ /\ IsSome(io)
       /\ last' = Op("send_tournament_end", [results |-> results], OkUnit,
                     <<Emit("all", "tournament-end", results)>>)
       /\ UNCHANGED <<server_vars, timer_vars, lock_vars>>
    \/ /\ ~IsSome(io)
       /\ last' = Op("send_tournament_end", [results |-> results],
                     Err(ErrNotRunning), <<>>)
       /\ UNCHANGED <<server_vars, timer_vars, lock_vars>>

\* The controller's requests in the server specification
TurnStates == {BaseState}
TimeLimits == {30}
TimerControls == {TimerControlEvent("PAUSE", None)}
Results == {TournamentResults(Some("P1"), "ascent", <<>>, 600, "done")}

Next ==
    \/ \E port \in Ports, bind_ok \in BOOLEAN : start(port, bind_ok)
    \/ stop
    \/ \E s \in SocketIds : connect(s)
    \/ \E s \in SocketIds, n \in PlayerNames : on_player_join(s, n)
    \/ \E s \in SocketIds, n \in PlayerNames : player_join(s, n)
    \/ \E s \in SocketIds : disconnect(s)
    \/ \E s \in SocketIds : on_disconnect(s)
    \/ \E s \in SocketIds, a \in ServerActionKinds, x \in ServerAssetNames,
          t \in Timestamps :
          player_action(s, a, x, t)
    \/ \E st \in BroadcastStates : broadcast_tournament_state(st)
    \/ \E st \in TurnStates, r \in Roles, t \in TimeLimits :
          send_turn_start(st, r, t)
    \/ \E c \in TimerControls : send_timer_control(c)
    \/ \E st \in TurnStates : send_tournament_start(st)
    \/ \E r \in Results : send_tournament_end(r)

Spec == Init /\ [][Next]_vars

(***************************************************************************)
(* The validator on its own: two participants have joined, the controller  *)
(* has pushed one of ValidatorStates, and participants send actions.       *)
(***************************************************************************)
InitValidator ==
    /\ players = [s \in {1, 2} |->
                    PlayerInfo("Alice", s, Some(IF s = 1 THEN "P1" ELSE "P2"))]
    /\ assignments = [r \in Roles |-> IF r = "P1" THEN 1 ELSE 2]
    /\ status = [running |-> TRUE, port |-> 3001, player_count |-> 2]
    /\ io = Some("io")
    /\ server_handle = Some("serve")
    /\ current_tournament_state \in {Some(st) : st \in ValidatorStates}
    /\ validated_actions = <<>>
    /\ connections = [s \in SocketIds |-> IF s \in {1, 2} THEN "open" ELSE "closed"]
    /\ join_tasks = {}
    /\ TimerInit
    /\ MutexInit
    /\ last = Op("broadcast_tournament_state",
                 [state |-> Unwrap(current_tournament_state)], OkUnit,
                 <<Emit("all", "game-state-update",
                        transform_for_players(Unwrap(current_tournament_state)))>>)

\* One request is handled per behaviour: every (state, request) pair is covered
\* by the initial states.
NextValidator ==
    /\ last.op # "player-action"
    /\ \E s \in SocketIds, a \in ActionKinds, x \in AssetNames, t \in Timestamps :
          player_action(s, a, x, t)

SpecValidator == InitValidator /\ [][NextValidator]_vars

(***************************************************************************)
(* The projection on its own: the controller has broadcast one of          *)
(* ProjectionStates to a session that P1 had joined, has then paused the   *)
(* participants' timers or stopped the session, and sends that state       *)
(* again: as a broadcast, as a tournament start and as a turn start for    *)
(* either role.                                                            *)
(***************************************************************************)
InitProjection ==
    \E running \in BOOLEAN, st \in ProjectionStates :
        /\ players = IF running
                     THEN [s \in {1} |-> PlayerInfo("Alice", s, Some("P1"))]
                     ELSE <<>>
        /\ assignments = IF running THEN [r \in {"P1"} |-> 1] ELSE <<>>
        /\ status = [running |-> running, port |-> 3001,
                     player_count |-> IF running THEN 1 ELSE 0]
        /\ io = IF running THEN Some("io") ELSE None
        /\ server_handle = IF running THEN Some("serve") ELSE None
        /\ current_tournament_state = Some(st)
        /\ validated_actions = <<>>
        /\ connections = [s \in SocketIds |-> IF s = 1 THEN "open" ELSE "closed"]
        /\ join_tasks = {}
        /\ TimerInit
        /\ MutexInit
        /\ last = IF running
                  THEN Op("send_timer_control",
                          [control |-> TimerControlEvent("PAUSE", None)], OkUnit,
                          <<Emit("all", "timer-control",
                                 TimerControlEvent("PAUSE", None))>>)
                  ELSE Op("stop", <<>>, Ok("Server stopped"), <<>>)

NextProjection ==
    \/ broadcast_tournament_state(Unwrap(current_tournament_state))
    \/ send_tournament_start(Unwrap(current_tournament_state))
    \/ \E r \in Roles, t \in TimeLimits :
          send_turn_start(Unwrap(current_tournament_state), r, t)

SpecProjection == InitProjection /\ [][NextProjection]_vars

(***************************************************************************)
(* The timer commands (timer/commands.rs) and the timer loop               *)
(* (timer/service.rs).  A command holds the TimerState lock from its first *)
(* line to its last, so it is one step.  A run_timer_loop task is          *)
(* "spawned" until it has cloned the stop receiver, then "waiting" in      *)
(* select!, and "ticking" once select! has taken the ticker branch and the *)
(* task is to lock the state.                                              *)
(***************************************************************************)
\* TimerTickPayload::from(&TimerSnapshot)
TimerTickPayload(snap, timestamp_ms) ==
    [status |-> CASE snap.status = "Ready" -> "ready"
                  [] snap.status = "Running" -> "running"
                  [] snap.status = "Paused" -> "paused"
                  [] snap.status = "Finished" -> "finished",
     seconds |-> snap.seconds, initial_seconds |-> snap.initial_seconds,
     timestamp_ms |-> timestamp_ms]

\* emit_timer_state
emit_timer_state(snap, timestamp_ms) ==
    Emit("all", "timer-tick", TimerTickPayload(snap, timestamp_ms))

ErrCannotStart(st) ==
    <<"Cannot start timer in {:?} state. Must be 'ready' or 'paused'.", st>>
ErrCannotPause(st) ==
    <<"Cannot pause timer in {:?} state. Must be 'running'.", st>>

\* The run history is void once a pause or a reset has come in between
NoRun == [from_ready |-> FALSE, ticks |-> 0]

FreeLoops == {l \in LoopIds : loops[l].pc = "none"}

\* start_timer that starts the countdown over from initial_seconds
start_timer_restarts(now) ==
    \/ /\ timer.status \notin {"Ready", "Paused"}
       /\ last' = Op("start_timer", <<>>, Err(ErrCannotStart(timer.status)), <<>>)
       /\ UNCHANGED <<server_vars, timer_vars, lock_vars>>
    \/ /\ timer.status \in {"Ready", "Paused"}
       /\ FreeLoops # {}
       /\ LET t == [timer EXCEPT !.status = "Running", !.seconds = timer.initial_seconds]
              l == CHOOSE x \in FreeLoops : \A y \in FreeLoops : x <= y
          IN  /\ timer' = t
              /\ loops' = [loops EXCEPT ![l] = [pc |-> "spawned", signalled |-> FALSE]]
              /\ run' = IF timer.status = "Ready"
                        THEN [from_ready |-> TRUE, ticks |-> 0]
                        ELSE run
              /\ last' = Op("start_timer", <<>>, Ok(snapshot(t)),
                            <<emit_timer_state(snapshot(t), now)>>)
       /\ UNCHANGED <<server_vars, lock_vars, stop_sent>>

\* start_timer that also starts a Finished timer
start_timer_from_finished(now) ==
    \/ /\ timer.status \notin {"Ready", "Paused", "Finished"}
       /\ last' = Op("start_timer", <<>>, Err(ErrCannotStart(timer.status)), <<>>)
       /\ UNCHANGED <<server_vars, timer_vars, lock_vars>>
    \/ /\ timer.status \in {"Ready", "Paused", "Finished"}
       /\ FreeLoops # {}
       /\ LET t == [timer EXCEPT !.status = "Running"]
              l == CHOOSE x \in FreeLoops : \A y \in FreeLoops : x <= y
          IN  /\ timer' = t
              /\ loops' = [loops EXCEPT ![l] = [pc |-> "spawned", signalled |-> FALSE]]
              /\ run' = IF timer.status = "Ready"
                        THEN [from_ready |-> TRUE, ticks |-> 0]
                        ELSE run
              /\ last' = Op("start_timer", <<>>, Ok(snapshot(t)),
                            <<emit_timer_state(snapshot(t), now)>>)
       /\ UNCHANGED <<server_vars, lock_vars, stop_sent>>

\* start_timer
start_timer(now) ==
    \/ /\ timer.status \notin {"Ready", "Paused"}
       /\ last' = Op("start_timer", <<>>, Err(ErrCannotStart(timer.status)), <<>>)
       /\ UNCHANGED <<server_vars, timer_vars, lock_vars>>
    \/ /\ timer.status \in {"Ready", "Paused"}
       /\ FreeLoops # {}
       /\ LET t == [timer EXCEPT !.status = "Running"]
              l == CHOOSE x \in FreeLoops : \A y \in FreeLoops : x <= y
          IN  /\ timer' = t
              /\ loops' = [loops EXCEPT ![l] = [pc |-> "spawned", signalled |-> FALSE]]
              /\ run' = IF timer.status = "Ready"
                        THEN [from_ready |-> TRUE, ticks |-> 0]
                        ELSE run
              /\ last' = Op("start_timer", <<>>, Ok(snapshot(t)),
                            <<emit_timer_state(snapshot(t), now)>>)
       /\ UNCHANGED <<server_vars, lock_vars, stop_sent>>

\* pause_timer that signals the loop before it checks the status
pause_timer_signals_first(now) ==
    \/ /\ timer.status # "Running"
       /\ loops' = send_stop_signal(loops)
       /\ stop_sent' = TRUE
       /\ last' = Op("pause_timer", <<>>, Err(ErrCannotPause(timer.status)), <<>>)
       /\ UNCHANGED <<server_vars, lock_vars, timer, run>>
    \/ /\ timer.status = "Running"
       /\ LET t == [timer EXCEPT !.status = "Paused"]
          IN  /\ timer' = t
              /\ loops' = send_stop_signal(loops)
              /\ stop_sent' = TRUE
              /\ run' = NoRun
              /\ last' = Op("pause_timer", <<>>, Ok(snapshot(t)),
                            <<emit_timer_state(snapshot(t), now)>>)
       /\ UNCHANGED <<server_vars, lock_vars>>

\* pause_timer
pause_timer(now) ==
    \/ /\ timer.status # "Running"
       /\ last' = Op("pause_timer", <<>>, Err(ErrCannotPause(timer.status)), <<>>)
       /\ UNCHANGED <<server_vars, timer_vars, lock_vars>>
    \/ /\ timer.status = "Running"
       /\ LET t == [timer EXCEPT !.status = "Paused"]
          IN  /\ timer' = t
              /\ loops' = send_stop_signal(loops)
              /\ stop_sent' = TRUE
              /\ run' = NoRun
              /\ last' = Op("pause_timer", <<>>, Ok(snapshot(t)),
                            <<emit_timer_state(snapshot(t), now)>>)
       /\ UNCHANGED <<server_vars, lock_vars>>

\* reset_timer: TimerState::reset signals the old channel and replaces it
reset_timer(seconds, now) ==
    LET t == reset(timer, seconds)
    IN  /\ timer' = t
        /\ loops' = send_stop_signal(loops)
        /\ stop_sent' = FALSE
        /\ run' = NoRun
        /\ last' = Op("reset_timer", [seconds |-> seconds], Ok(snapshot(t)),
                      <<emit_timer_state(snapshot(t), now)>>)
        /\ UNCHANGED <<server_vars, lock_vars>>

\* get_timer_state
get_timer_state ==
    /\ last' = Op("get_timer_state", <<>>, Ok(snapshot(timer)), <<>>)
    /\ UNCHANGED <<server_vars, timer_vars, lock_vars>>

\* run_timer_loop up to its loop: the receiver cloned from the state has seen
\* nothing of what was sent on the channel before
loop_begin(l) ==
    /\ loops[l].pc = "spawned"
    /\ loops' = [loops EXCEPT ![l] = [pc |-> "waiting", signalled |-> stop_sent]]
    /\ last' = Op("loop_begin", [loop |-> l], <<>>, <<>>)
    /\ UNCHANGED <<server_vars, lock_vars, timer, stop_sent, run>>

\* select! takes the ticker branch: a second has passed
ticker_tick(l) ==
    /\ loops[l].pc = "waiting"
    /\ loops' = [loops EXCEPT ![l].pc = "ticking"]
    /\ last' = Op("ticker_tick", [loop |-> l], <<>>, <<>>)
    /\ UNCHANGED <<server_vars, lock_vars, timer, stop_sent, run>>

\* The ticks counted since the last start from Ready, up to one past the start value
Counted(r, t) ==
    IF r.from_ready /\ r.ticks <= t.initial_seconds
    THEN [r EXCEPT !.ticks = @ + 1]
    ELSE r

\* A ticker branch that decrements only while more than one second is left
loop_tick_stops_at_one(l, now) ==
    \/ /\ loops[l].pc = "ticking"
       /\ timer.status # "Running"
       /\ loops' = [loops EXCEPT ![l] = NoLoop]
       /\ run' = Counted(run, timer)
       /\ last' = Op("loop_tick", [loop |-> l], Ok([step |-> "break"]), <<>>)
       /\ UNCHANGED <<server_vars, lock_vars, timer, stop_sent>>
    \/ /\ loops[l].pc = "ticking"
       /\ timer.status = "Running"
       /\ timer.seconds > 1
       /\ LET t == [timer EXCEPT !.seconds = @ - 1]
          IN  /\ timer' = t
              /\ last' = Op("loop_tick", [loop |-> l], Ok([step |-> "continue"]),
                            <<emit_timer_state(snapshot(t), now)>>)
       /\ loops' = [loops EXCEPT ![l].pc = "waiting"]
       /\ run' = Counted(run, timer)
       /\ UNCHANGED <<server_vars, lock_vars, stop_sent>>
    \/ /\ loops[l].pc = "ticking"
       /\ timer.status = "Running"
       /\ timer.seconds <= 1
       /\ loops' = [loops EXCEPT ![l].pc = "waiting"]
       /\ run' = Counted(run, timer)
       /\ last' = Op("loop_tick", [loop |-> l], Ok([step |-> "continue"]), <<>>)
       /\ UNCHANGED <<server_vars, lock_vars, timer, stop_sent>>

\* A ticker branch that emits "timer-finished" with every decrement
loop_tick_signals_every_tick(l, now) ==
    \/ /\ loops[l].pc = "ticking"
       /\ timer.status # "Running"
       /\ loops' = [loops EXCEPT ![l] = NoLoop]
       /\ run' = Counted(run, timer)
       /\ last' = Op("loop_tick", [loop |-> l], Ok([step |-> "break"]), <<>>)
       /\ UNCHANGED <<server_vars, lock_vars, timer, stop_sent>>
    \/ /\ loops[l].pc = "ticking"
       /\ timer.status = "Running"
       /\ timer.seconds > 1
       /\ LET t == [timer EXCEPT !.seconds = @ - 1]
          IN  /\ timer' = t
              /\ last' = Op("loop_tick", [loop |-> l], Ok([step |-> "continue"]),
                            <<emit_timer_state(snapshot(t), now),
                              Emit("all", "timer-finished", <<>>)>>)
       /\ loops' = [loops EXCEPT ![l].pc = "waiting"]
       /\ run' = Counted(run, timer)
       /\ UNCHANGED <<server_vars, lock_vars, stop_sent>>
    \/ /\ loops[l].pc = "ticking"
       /\ timer.status = "Running"
       /\ timer.seconds = 1
       /\ LET t == [timer EXCEPT !.seconds = 0, !.status = "Finished"]
          IN  /\ timer' = t
              /\ last' = Op("loop_tick", [loop |-> l], Ok([step |-> "break"]),
                            <<emit_timer_state(snapshot(t), now),
                              Emit("all", "timer-finished", <<>>)>>)
       /\ loops' = [loops EXCEPT ![l] = NoLoop]
       /\ run' = Counted(run, timer)
       /\ UNCHANGED <<server_vars, lock_vars, stop_sent>>
    \/ /\ loops[l].pc = "ticking"
       /\ timer.status = "Running"
       /\ timer.seconds = 0
       /\ loops' = [loops EXCEPT ![l].pc = "waiting"]
       /\ run' = Counted(run, timer)
       /\ last' = Op("loop_tick", [loop |-> l], Ok([step |-> "continue"]), <<>>)
       /\ UNCHANGED <<server_vars, lock_vars, timer, stop_sent>>

\* A ticker branch that decrements without looking at the status
loop_tick_ignores_status(l, now) ==
    \/ /\ loops[l].pc = "ticking"
       /\ timer.seconds > 1
       /\ LET t == [timer EXCEPT !.seconds = @ - 1]
          IN  /\ timer' = t
              /\ last' = Op("loop_tick", [loop |-> l], Ok([step |-> "continue"]),
                            <<emit_timer_state(snapshot(t), now)>>)
       /\ loops' = [loops EXCEPT ![l].pc = "waiting"]
       /\ run' = Counted(run, timer)
       /\ UNCHANGED <<server_vars, lock_vars, stop_sent>>
    \/ /\ loops[l].pc = "ticking"
       /\ timer.seconds = 1
       /\ LET t == [timer EXCEPT !.seconds = 0, !.status = "Finished"]
          IN  /\ timer' = t
              /\ last' = Op("loop_tick", [loop |-> l], Ok([step |-> "break"]),
                            <<emit_timer_state(snapshot(t), now),
                              Emit("all", "timer-finished", <<>>)>>)
       /\ loops' = [loops EXCEPT ![l] = NoLoop]
       /\ run' = Counted(run, timer)
       /\ UNCHANGED <<server_vars, lock_vars, stop_sent>>
    \/ /\ loops[l].pc = "ticking"
       /\ timer.seconds = 0
       /\ loops' = [loops EXCEPT ![l].pc = "waiting"]
       /\ run' = Counted(run, timer)
       /\ last' = Op("loop_tick", [loop |-> l], Ok([step |-> "continue"]), <<>>)
       /\ UNCHANGED <<server_vars, lock_vars, timer, stop_sent>>

\* The body of the ticker branch, under the lock
loop_tick(l, now) ==
    \/ /\ loops[l].pc = "ticking"
       /\ timer.status # "Running"
       /\ loops' = [loops EXCEPT ![l] = NoLoop]
       /\ run' = Counted(run, timer)
       /\ last' = Op("loop_tick", [loop |-> l], Ok([step |-> "break"]), <<>>)
       /\ UNCHANGED <<server_vars, lock_vars, timer, stop_sent>>
    \/ /\ loops[l].pc = "ticking"
       /\ timer.status = "Running"
       /\ timer.seconds > 1
       /\ LET t == [timer EXCEPT !.seconds = @ - 1]
          IN  /\ timer' = t
              /\ last' = Op("loop_tick", [loop |-> l], Ok([step |-> "continue"]),
                            <<emit_timer_state(snapshot(t), now)>>)
       /\ loops' = [loops EXCEPT ![l].pc = "waiting"]
       /\ run' = Counted(run, timer)
       /\ UNCHANGED <<server_vars, lock_vars, stop_sent>>
    \/ /\ loops[l].pc = "ticking"
       /\ timer.status = "Running"
       /\ timer.seconds = 1
       /\ LET t == [timer EXCEPT !.seconds = 0, !.status = "Finished"]
          IN  /\ timer' = t
              /\ last' = Op("loop_tick", [loop |-> l], Ok([step |-> "break"]),
                            <<emit_timer_state(snapshot(t), now),
                              Emit("all", "timer-finished", <<>>)>>)
       /\ loops' = [loops EXCEPT ![l] = NoLoop]
       /\ run' = Counted(run, timer)
       /\ UNCHANGED <<server_vars, lock_vars, stop_sent>>
    \/ /\ loops[l].pc = "ticking"
       /\ timer.status = "Running"
       /\ timer.seconds = 0
       /\ loops' = [loops EXCEPT ![l].pc = "waiting"]
       /\ run' = Counted(run, timer)
       /\ last' = Op("loop_tick", [loop |-> l], Ok([step |-> "continue"]), <<>>)
       /\ UNCHANGED <<server_vars, lock_vars, timer, stop_sent>>

\* select! takes the stop branch: stop_rx.changed() is Ok
loop_stop(l) ==
    /\ loops[l].pc = "waiting"
    /\ loops[l].signalled
    /\ loops' = [loops EXCEPT ![l] = NoLoop]
    /\ last' = Op("loop_stop", [loop |-> l], Ok([step |-> "break"]), <<>>)
    /\ UNCHANGED <<server_vars, lock_vars, timer, stop_sent, run>>

\* The seconds the controller resets the timer to
MaxSeconds == 4
ResetSeconds == {None} \cup {Some(n) : n \in 0..MaxSeconds}

NextTimer ==
    \/ \E now \in Timestamps : start_timer(now)
    \/ \E now \in Timestamps : pause_timer(now)
    \/ \E seconds \in ResetSeconds, now \in Timestamps : reset_timer(seconds, now)
    \/ get_timer_state
    \/ \E l \in LoopIds : loop_begin(l)
    \/ \E l \in LoopIds : ticker_tick(l)
    \/ \E l \in LoopIds, now \in Timestamps : loop_tick(l, now)
    \/ \E l \in LoopIds : loop_stop(l)

\* The handler accepted the action of step l
Accepted(l) == l.op = "player-action" /\ IsSome(l.result.validated_action)

\* The session between two pushes of the controller: the state right after the
\* handler has accepted P1's ban of "bind" sent on connection 1 against the
\* stored BaseState, and from there every step of the connections and none of
\* the controller.
InitAccepted ==
    LET pm == [players |-> [s \in {1} |-> PlayerInfo("Alice", s, Some("P1"))],
               assignments |-> [r \in {"P1"} |-> 1]]
        data == [action |-> "BAN", selection |-> "bind", timestamp |-> 1700000000]
        h == handle_player_action(pm, Some(BaseState), 1, data)
    IN  /\ players = pm.players
        /\ assignments = pm.assignments
        /\ status = [running |-> TRUE, port |-> 3001, player_count |-> 1]
        /\ io = Some("io")
        /\ server_handle = Some("serve")
        /\ current_tournament_state = Some(BaseState)
        /\ validated_actions = <<>>
        /\ connections = [s \in SocketIds |-> IF s = 1 THEN "open" ELSE "closed"]
        /\ join_tasks = {}
        /\ TimerInit
        /\ MutexInit
        /\ last = Op("player-action", [socket |-> 1, data |-> data],
                     [validation |-> h.validation,
                      validated_action |-> h.validated_action],
                     <<Emit(1, "action-result", h.response)>>)

NextBetweenPushes ==
    \/ \E s \in SocketIds : connect(s)
    \/ \E s \in SocketIds, n \in PlayerNames : on_player_join(s, n)
    \/ \E s \in SocketIds, n \in PlayerNames : player_join(s, n)
    \/ \E s \in SocketIds : disconnect(s)
    \/ \E s \in SocketIds : on_disconnect(s)
    \/ \E s \in SocketIds, a \in ServerActionKinds, x \in ServerAssetNames,
          t \in Timestamps :
          player_action(s, a, x, t)

SpecBetweenPushes == InitAccepted /\ [][NextBetweenPushes]_vars

\* The controller is the admin client; its code is not in this repository's
\* Rust sources.  It is modelled as the draft rules describe it: it folds one
\* accepted action into the stored state and pushes the result before the next
\* action is validated.
\* HashMap::insert on agent_picks: the role's entry is replaced where it is, or
\* added
insert_pick(agent_picks, role, agent) ==
    IF role \in Keys(agent_picks)
    THEN [i \in 1..Len(agent_picks) |->
            IF agent_picks[i][1] = role THEN <<role, Some(agent)>> ELSE agent_picks[i]]
    ELSE Append(agent_picks, <<role, Some(agent)>>)

\* The accepted action recorded in the state it was validated against, by the
\* expected kind of that state
fold(tournament_state, validated_action) ==
    LET kind == get_expected_action_type(tournament_state)
        entry == AssetSelection(validated_action.selection, validated_action.player)
    IN  IF kind = "MAP_BAN"
        THEN [tournament_state EXCEPT !.maps_banned = Append(@, entry)]
        ELSE IF kind = "MAP_PICK"
        THEN [tournament_state EXCEPT !.maps_picked = Append(@, entry)]
        ELSE IF kind = "DECIDER"
        THEN [tournament_state EXCEPT !.decider_map = Some(validated_action.selection)]
        ELSE IF kind = "AGENT_BAN"
        THEN [tournament_state EXCEPT !.agents_banned = Append(@, entry)]
        ELSE IF kind = "AGENT_PICK"
        THEN [tournament_state EXCEPT
                 !.agent_picks = insert_pick(@, validated_action.player,
                                             validated_action.selection)]
        ELSE tournament_state

\* Where the controller takes the draft next: one place per expected kind.  The
\* draft rules leave open how the controller moves the phase, the action
\* number and the turn, so any order is allowed.
DraftPositions ==
    {<<"MAP_PHASE", 1>>, <<"MAP_PHASE", 7>>, <<"MAP_PHASE", 9>>,
     <<"AGENT_PHASE", 10>>, <<"AGENT_PHASE", 16>>}

\* The requests of the draft specification
DraftKinds == {"BAN", "PICK", "DECIDER"}
DraftAssets == {"bind", "ascent", "jett", "sage"}

\* Both roles have joined and the controller has pushed the draft's first state
InitDraft ==
    /\ players = [s \in {1, 2} |->
                    PlayerInfo("Alice", s, Some(IF s = 1 THEN "P1" ELSE "P2"))]
    /\ assignments = [r \in Roles |-> IF r = "P1" THEN 1 ELSE 2]
    /\ status = [running |-> TRUE, port |-> 3001, player_count |-> 2]
    /\ io = Some("io")
    /\ server_handle = Some("serve")
    /\ current_tournament_state = Some(BaseState)
    /\ validated_actions = <<>>
    /\ connections = [s \in SocketIds |-> IF s \in {1, 2} THEN "open" ELSE "closed"]
    /\ join_tasks = {}
    /\ TimerInit
    /\ MutexInit
    /\ last = Op("broadcast_tournament_state", [state |-> BaseState], OkUnit,
                 <<Emit("all", "game-state-update", transform_for_players(BaseState))>>)

\* An action is accepted, then the controller pushes the folded state.  A
\* rejected action changes nothing (it is the subject of the server
\* specification), so only the accepted ones are followed.
NextDraft ==
    \/ \E s \in SocketIds, a \in DraftKinds, x \in DraftAssets, t \in Timestamps :
          /\ ~Accepted(last)
          /\ player_action(s, a, x, t)
          /\ Accepted(last')
    \/ \E pos \in DraftPositions, turn \in Roles :
          /\ Accepted(last)
          /\ broadcast_tournament_state(
                [fold(Unwrap(current_tournament_state),
                      Unwrap(last.result.validated_action))
                    EXCEPT !.current_phase = pos[1], !.action_number = pos[2],
                           !.current_player = Some(turn)])

SpecDraft == InitDraft /\ [][NextDraft]_vars

\* The session commands next to a running timer: the server and the timer are
\* two managed states of one application and their commands interleave
NextShutdown ==
    \/ \E port \in Ports, bind_ok \in BOOLEAN : start(port, bind_ok)
    \/ stop
    \/ \E now \in Timestamps : start_timer(now)
    \/ \E now \in Timestamps : pause_timer(now)
    \/ \E seconds \in ResetSeconds, now \in Timestamps : reset_timer(seconds, now)
    \/ \E l \in LoopIds : loop_begin(l)
    \/ \E l \in LoopIds : ticker_tick(l)
    \/ \E l \in LoopIds, now \in Timestamps : loop_tick(l, now)
    \/ \E l \in LoopIds : loop_stop(l)

SpecShutdown == Init /\ [][NextShutdown]_vars

\* ---------------------------------------------------------------------------
\* The handlers at the grain of their lock().await points.  A step runs from one
\* await to the next; a lock is taken only when nobody holds it, and a guard
\* lives until the end of its block.

\* get_status up to its second await: self.status.lock() is taken
get_status_lock_status ==
    /\ mutex.status = None
    /\ mutex' = [mutex EXCEPT !.status = Some(StatusQuery)]
    /\ last' = Op("get_status:status", <<>>, <<>>, <<>>)
    /\ UNCHANGED <<server_vars, timer_vars>>

\* get_status from self.player_manager.lock() to its return, which drops both
\* guards
get_status_lock_player_manager ==
    /\ mutex.status = Some(StatusQuery)
    /\ mutex.player_manager = None
    /\ mutex' = [mutex EXCEPT !.status = None]
    /\ last' = Op("get_status", <<>>,
                  Ok([running |-> status.running, port |-> status.port,
                      player_count |-> get_connected_count(pm_now)]), <<>>)
    /\ UNCHANGED <<server_vars, timer_vars>>

\* The player-join task from pm_clone.lock() to its next await: add_player
\* under the registry lock.  On Ok the task goes on to wait for the status
\* lock with the registry guard alive; on Err it runs to its end.
player_join_lock_player_manager(socket_id, player_name) ==
    LET r == add_player(pm_now, player_name, socket_id)
        task == [socket_id |-> socket_id, player_name |-> player_name]
    IN  /\ task \in join_tasks
        /\ mutex.player_manager = None
        /\ players' = r.pm.players
        /\ assignments' = r.pm.assignments
        /\ IF r.result.ok
           THEN /\ mutex' = [mutex EXCEPT !.player_manager =
                                Some(Task("player-join", socket_id, player_name))]
                /\ join_tasks' = join_tasks
                /\ connections' = connections
                /\ last' = Op("player-join:add_player",
                              [socket |-> socket_id, player_name |-> player_name],
                              r.result, <<>>)
           ELSE /\ mutex' = mutex
                /\ join_tasks' = join_tasks \ {task}
                /\ connections' =
                      IF connections[socket_id] = "open"
                      THEN [connections EXCEPT ![socket_id] = "closing"]
                      ELSE connections
                /\ last' = Op("player-join",
                              [socket |-> socket_id, player_name |-> player_name],
                              r.result,
                              <<Emit(socket_id, "error",
                                     [message |-> r.result.error,
                                      code |-> "ASSIGNMENT_FAILED"])>>)
        /\ UNCHANGED <<status, io, server_handle, current_tournament_state,
                       validated_actions, timer_vars>>

\* The player-join task from status_clone.lock() to its end: the count is
\* written, the assignment is sent, and the registry guard is dropped
player_join_lock_status(socket_id, player_name) ==
    LET task == [socket_id |-> socket_id, player_name |-> player_name]
    IN  /\ mutex.player_manager = Some(Task("player-join", socket_id, player_name))
        /\ mutex.status = None
        /\ status' = [status EXCEPT !.player_count = get_connected_count(pm_now)]
        /\ mutex' = [mutex EXCEPT !.player_manager = None]
        /\ join_tasks' = join_tasks \ {task}
        /\ last' = Op("player-join",
                      [socket |-> socket_id, player_name |-> player_name],
                      Ok(players[socket_id]),
                      <<Emit(socket_id, "player-assigned",
                             [playerId |-> players[socket_id].player_id])>>)
        /\ UNCHANGED <<players, assignments, io, server_handle,
                       current_tournament_state, validated_actions, connections,
                       timer_vars>>

\* The on_disconnect task from pm_clone.lock() to its next await
on_disconnect_lock_player_manager(socket_id) ==
    LET r == remove_player_by_socket(pm_now, socket_id)
    IN  /\ connections[socket_id] = "closing"
        /\ mutex.player_manager = None
        /\ players' = r.pm.players
        /\ assignments' = r.pm.assignments
        /\ mutex' = [mutex EXCEPT !.player_manager =
                        Some(Task("on_disconnect", socket_id, ""))]
        /\ last' = Op("on_disconnect:remove_player", [socket |-> socket_id],
                      r.result, <<>>)
        /\ UNCHANGED <<status, io, server_handle, current_tournament_state,
                       validated_actions, connections, join_tasks, timer_vars>>

\* The on_disconnect task from status_clone.lock() to its end
on_disconnect_lock_status(socket_id) ==
    /\ mutex.player_manager = Some(Task("on_disconnect", socket_id, ""))
    /\ mutex.status = None
    /\ status' = [status EXCEPT !.player_count = get_connected_count(pm_now)]
    /\ connections' = [connections EXCEPT ![socket_id] = "closed"]
    /\ mutex' = [mutex EXCEPT !.player_manager = None]
    /\ last' = Op("on_disconnect", [socket |-> socket_id], OkUnit, <<>>)
    /\ UNCHANGED <<players, assignments, io, server_handle,
                   current_tournament_state, validated_actions, join_tasks,
                   timer_vars>>

\* A started server with nobody connected
InitLocks ==
    /\ players = PlayerManager_new.players
    /\ assignments = PlayerManager_new.assignments
    /\ status = [running |-> TRUE, port |-> 3001, player_count |-> 0]
    /\ io = Some("io")
    /\ server_handle = Some("serve")
    /\ current_tournament_state = None
    /\ validated_actions = <<>>
    /\ connections = [s \in SocketIds |-> "closed"]
    /\ join_tasks = {}
    /\ TimerInit
    /\ MutexInit
    /\ last = Op("start", [port |-> 3001], Ok("Server started"), <<>>)

NextLocks ==
    \/ \E s \in SocketIds : connect(s)
    \/ \E s \in SocketIds, n \in PlayerNames : on_player_join(s, n)
    \/ \E s \in SocketIds : disconnect(s)
    \/ get_status_lock_status
    \/ get_status_lock_player_manager
    \/ \E s \in SocketIds, n \in PlayerNames :
          player_join_lock_player_manager(s, n)
    \/ \E s \in SocketIds, n \in PlayerNames : player_join_lock_status(s, n)
    \/ \E s \in SocketIds : on_disconnect_lock_player_manager(s)
    \/ \E s \in SocketIds : on_disconnect_lock_status(s)

SpecLocks == InitLocks /\ [][NextLocks]_vars

\* The tokio runtime runs every spawned run_timer_loop task, and the ticker of
\* a task waiting in select! fires every second: a loop step that stays
\* possible is taken.
LoopFairness ==
    \A l \in LoopIds :
        /\ WF_vars(loop_begin(l))
        /\ WF_vars(ticker_tick(l))
        /\ WF_vars(\E now \in Timestamps : loop_tick(l, now))
        /\ WF_vars(loop_stop(l))

SpecTimerFair == Init /\ [][NextTimer]_vars /\ LoopFairness

SpecTimer == Init /\ [][NextTimer]_vars

(***************************************************************************)
(* Properties of the participant registry.                                 *)
(***************************************************************************)
\* The sockets whose stored record carries role r
Holders(r) == {s \in DOMAIN players : players[s].player_id = Some(r)}

\* C1: a register call for a connection id that holds no record gets role P1
\* when no record carries P1, otherwise P2 when no record carries P2, and is
\* rejected as full exactly when both roles are carried; a successful call
\* stores the record it returns under the caller's connection id.
C1_RegisterAssignsLowestFreeRole ==
    [][(last'.op = "player-join" /\ last'.args.socket \notin DOMAIN players) =>
        LET s == last'.args.socket
            r == last'.result
            free == IF Holders("P1") = {} THEN Some("P1")
                    ELSE IF Holders("P2") = {} THEN Some("P2")
                    ELSE None
        IN  IF free = None
            THEN r = Err(ErrTournamentFull)
            ELSE /\ r.ok
                 /\ r.value.player_id = free
                 /\ r.value.socket_id = s
                 /\ s \in DOMAIN players'
                 /\ players'[s] = r.value
                 /\ assignments'[Unwrap(free)] = s]_vars

\* C1 witness: P1 was freed and then given to a new connection while P2 is
\* still held by another one.
C1_Witness ==
    /\ last.op = "player-join"
    /\ last.result.ok
    /\ last.result.value.player_id = Some("P1")
    /\ Holders("P2") # {}
    /\ Holders("P2") # {last.args.socket}

\* C2: at most one record per role, every record is stored under its own
\* connection id, at most 2 records, and a role is marked assigned exactly when
\* one stored record carries it, the one the assignment points to.
C2_RegistryInvariant ==
    /\ \A r \in Roles : Cardinality(Holders(r)) <= 1
    /\ \A s \in DOMAIN players :
          /\ players[s].socket_id = s
          /\ players[s].player_id \in {Some(r) : r \in Roles}
    /\ Cardinality(DOMAIN players) <= 2
    /\ DOMAIN assignments \subseteq Roles
    /\ \A r \in Roles :
          /\ is_player_assigned(pm_now, r) <=> Holders(r) # {}
          /\ is_player_assigned(pm_now, r) =>
                /\ Holders(r) = {assignments[r]}
                /\ get_player_by_id(pm_now, r)
                      = get_player_by_socket(pm_now, assignments[r])
                /\ IsSome(get_player_by_id(pm_now, r))

\* C2 witness: both roles are held and a third connection was just rejected.
C2_Witness ==
    /\ Cardinality(DOMAIN players) = 2
    /\ last.op = "player-join"
    /\ last.result = Err(ErrTournamentFull)

\* C3: a register call for a connection id that holds a record fails as a
\* duplicate, whatever roles are taken, and a failed register call changes no
\* record and no assignment.
C3_FailedRegisterChangesNothing ==
    [][last'.op = "player-join" =>
        /\ last'.args.socket \in DOMAIN players =>
              last'.result = Err(ErrSocketConnected)
        /\ ~last'.result.ok => UNCHANGED <<players, assignments>>]_vars

\* C3 witness: a duplicate register call was rejected while both roles are taken.
C3_Witness ==
    /\ last.op = "player-join"
    /\ last.result = Err(ErrSocketConnected)
    /\ Holders("P1") # {}
    /\ Holders("P2") # {}

(***************************************************************************)
(* Properties of draft validation.  They are stated on the validation the  *)
(* last "player-action" handler ran: the request, the sender's role, the   *)
(* stored state and the Result it got.                                     *)
(***************************************************************************)
Validated == last.op = "player-action" /\ IsSome(last.result.validation)
Req == last.args.data
ReqRole == Unwrap(players[last.args.socket].player_id)
St == Unwrap(current_tournament_state)
V == Unwrap(last.result.validation)

CoarseKinds == {"BAN", "PICK", "DECIDER"}
AssetErrors ==
    {"AssetNotFound", "AssetAlreadyBanned", "AssetAlreadyPicked",
     "DeciderNotFromPickedMaps"}

\* The coarse family of an expected kind
Family(kind) ==
    IF kind \in {"MAP_BAN", "AGENT_BAN"} THEN "BAN"
    ELSE IF kind \in {"MAP_PICK", "AGENT_PICK"} THEN "PICK"
    ELSE IF kind = "DECIDER" THEN "DECIDER"
    ELSE "NONE"

\* The rows of the expected-kind table
TableKind(phase, n) ==
    IF phase = "MAP_PHASE" /\ n \in 1..6 THEN "MAP_BAN"
    ELSE IF phase = "MAP_PHASE" /\ n \in 7..8 THEN "MAP_PICK"
    ELSE IF phase = "MAP_PHASE" /\ n = 9 THEN "DECIDER"
    ELSE IF phase = "AGENT_PHASE" /\ n \in 1..15 THEN "AGENT_BAN"
    ELSE IF phase = "AGENT_PHASE" /\ n \in 16..17 THEN "AGENT_PICK"
    ELSE "NO_ROW"

NameSet(list) == {list[i].name : i \in 1..Len(list)}
Range(seq) == {seq[i] : i \in 1..Len(seq)}

\* The role recorded with the first entry of list named x
FirstRole(list, x) ==
    LET i == CHOOSE k \in 1..Len(list) :
                 /\ list[k].name = x
                 /\ \A j \in 1..(k - 1) : list[j].name # x
    IN  list[i].player

\* The roles whose current agent pick is x
Pickers(st, x) ==
    {st.agent_picks[i][1] : i \in {k \in 1..Len(st.agent_picks) :
                                      st.agent_picks[k][2] = Some(x)}}

Check1 == St.event_started = Some(TRUE)
Check2 == St.current_phase # "CONCLUSION"
Check3 == St.current_player = Some(ReqRole)
Check4 == Req.action = Family(get_expected_action_type(St))
Check5 ==
    LET kind == get_expected_action_type(St)
        x == Req.selection
    IN  IF kind \in {"MAP_BAN", "MAP_PICK"}
        THEN /\ x \in Range(ALL_MAPS)
             /\ x \notin NameSet(St.maps_banned) \cup NameSet(St.maps_picked)
        ELSE IF kind = "DECIDER"
        THEN x \in NameSet(St.maps_picked)
        ELSE /\ x \in Range(ALL_AGENTS)
             /\ x \notin NameSet(St.agents_banned)
             /\ Pickers(St, x) = {}

\* The check that returns each error
ErrorCheck(variant) ==
    IF variant = "EventNotStarted" THEN 1
    ELSE IF variant = "TournamentCompleted" THEN 2
    ELSE IF variant \in {"NotPlayerTurn", "InvalidPlayer"} THEN 3
    ELSE IF variant \in {"InvalidPhase", "UnknownActionType"} THEN 4
    ELSE IF variant \in AssetErrors THEN 5
    ELSE 0

\* C4: validation returns the error of the first failing check in the order
\* event started, phase not concluded, turn owner, kind, asset legality, and
\* succeeds only when all five pass; with eventStarted false or absent the
\* result is EventNotStarted whatever the role, kind and asset.
C4_FirstFailingCheckDecides ==
    Validated =>
        LET first == IF ~Check1 THEN 1
                     ELSE IF ~Check2 THEN 2
                     ELSE IF ~Check3 THEN 3
                     ELSE IF ~Check4 THEN 4
                     ELSE IF ~Check5 THEN 5
                     ELSE 0
        IN  /\ V.ok <=> first = 0
            /\ ~V.ok => ErrorCheck(V.error.variant) = first
            /\ ~Check1 => V = Err(EventNotStarted)
            /\ (Check1 /\ ~Check2) => V = Err(TournamentCompleted)

\* C4 witness: the event has not started and every later check fails too.
C4_Witness ==
    /\ Validated
    /\ St.event_started = Some(FALSE)
    /\ ~Check2 /\ ~Check3 /\ ~Check4
    /\ Req.selection = "invalid_map"
    /\ V = Err(EventNotStarted)

\* C5: with the event started, the phase not concluded and the turn owned by
\* role X, an action of the other role fails with NotPlayerTurn{received: the
\* other role, current: X}, whatever its kind and asset.
C5_OtherRoleIsNotPlayerTurn ==
    (Validated /\ Check1 /\ Check2 /\ IsSome(St.current_player) /\ ~Check3) =>
        V = Err(NotPlayerTurn(ReqRole, Unwrap(St.current_player)))

\* C5 witness: an action that is legal but for its sender is rejected.
C5_Witness ==
    /\ Validated
    /\ St = [BaseState EXCEPT !.current_player = Some("P1")]
    /\ ReqRole = "P2"
    /\ Req.action = "BAN" /\ Req.selection = "bind"
    /\ V = Err(NotPlayerTurn("P2", "P1"))

\* C6 as stated: with checks 1-3 passing on a row of the table, every supplied
\* kind that is not the family of the expected kind fails with InvalidPhase.
C6_Original ==
    (Validated /\ Check1 /\ Check2 /\ Check3
       /\ TableKind(St.current_phase, St.action_number) # "NO_ROW"
       /\ Req.action # Family(TableKind(St.current_phase, St.action_number))) =>
        V = Err(InvalidPhase(Req.action, St.current_phase))

\* C6 amended: on every row of the table the expected kind is the table's; a
\* supplied kind BAN, PICK or DECIDER passes the kind check exactly when it is
\* the family of the expected kind and otherwise fails with InvalidPhase{action,
\* currentPhase}; any other supplied kind fails with UnknownActionType{action}.
C6_KindMustMatchExpected ==
    (Validated /\ Check1 /\ Check2 /\ Check3) =>
        LET row == TableKind(St.current_phase, St.action_number)
        IN  /\ row # "NO_ROW" =>
                /\ get_expected_action_type(St) = row
                /\ Req.action \in CoarseKinds =>
                      IF Req.action = Family(row)
                      THEN V.ok \/ V.error.variant \in AssetErrors
                      ELSE V = Err(InvalidPhase(Req.action, St.current_phase))
            /\ Req.action \notin CoarseKinds =>
                  V = Err(UnknownActionType(Req.action))

\* C6 witness: a PICK at a map-pick turn passes the kind check and is accepted.
C6_Witness ==
    /\ Validated /\ Check1 /\ Check2 /\ Check3
    /\ St.current_phase = "MAP_PHASE" /\ St.action_number = 7
    /\ Req.action = "PICK"
    /\ V.ok

\* C7: at a map ban or map pick turn with checks 1-4 passing, a name outside
\* the 12-map catalog fails with AssetNotFound; otherwise a name in maps_banned
\* fails with AssetAlreadyBanned and the role of its (first) ban; otherwise a
\* name in maps_picked fails with AssetAlreadyPicked and the role of its (first)
\* pick; otherwise the action is accepted.
C7_MapLegality ==
    (Validated /\ Check1 /\ Check2 /\ Check3 /\ Check4
       /\ get_expected_action_type(St) \in {"MAP_BAN", "MAP_PICK"}) =>
        LET x == Req.selection
        IN  /\ Cardinality(Range(ALL_MAPS)) = 12
            /\ IF x \notin Range(ALL_MAPS)
               THEN V = Err(AssetNotFound(x, "map"))
               ELSE IF x \in NameSet(St.maps_banned)
               THEN V = Err(AssetAlreadyBanned(x, FirstRole(St.maps_banned, x)))
               ELSE IF x \in NameSet(St.maps_picked)
               THEN V = Err(AssetAlreadyPicked(x, FirstRole(St.maps_picked, x)))
               ELSE V.ok

\* C7 witness: "bind" was banned by P1 and P2 tries to ban it.
C7_Witness ==
    /\ Validated
    /\ St.maps_banned = <<AssetSelection("bind", "P1")>>
    /\ ReqRole = "P2"
    /\ Req.action = "BAN" /\ Req.selection = "bind"
    /\ V = Err(AssetAlreadyBanned("bind", "P1"))

\* C8: at MAP_PHASE action 9 with checks 1-4 passing, a DECIDER action is
\* accepted exactly when its asset is the name of an entry of maps_picked, and
\* otherwise fails with DeciderNotFromPickedMaps{asset, pickedMaps}.
C8_DeciderFromPickedMaps ==
    (Validated /\ Check1 /\ Check2 /\ Check3
       /\ St.current_phase = "MAP_PHASE" /\ St.action_number = 9
       /\ Req.action = "DECIDER") =>
        IF Req.selection \in NameSet(St.maps_picked)
        THEN V.ok
        ELSE V = Err(DeciderNotFromPickedMaps(Req.selection, Names(St.maps_picked)))

\* C8 witness: the decider is rejected for a catalog map that was not picked.
C8_Witness ==
    /\ Validated
    /\ St.current_phase = "MAP_PHASE" /\ St.action_number = 9
    /\ St.maps_picked = <<AssetSelection("ascent", "P1")>>
    /\ Req.action = "DECIDER" /\ Req.selection = "bind"
    /\ V = Err(DeciderNotFromPickedMaps("bind", <<"ascent">>))

\* C9: at an agent ban or agent pick turn with checks 1-4 passing, a name
\* outside the agent catalog fails with AssetNotFound; otherwise a name in
\* agents_banned fails with AssetAlreadyBanned; otherwise a name that is the
\* current pick of a role fails with AssetAlreadyPicked, naming such a role;
\* otherwise the action is accepted.
C9_AgentLegality ==
    (Validated /\ Check1 /\ Check2 /\ Check3 /\ Check4
       /\ get_expected_action_type(St) \in {"AGENT_BAN", "AGENT_PICK"}) =>
        LET x == Req.selection
        IN  IF x \notin Range(ALL_AGENTS)
            THEN V = Err(AssetNotFound(x, "agent"))
            ELSE IF x \in NameSet(St.agents_banned)
            THEN V = Err(AssetAlreadyBanned(x, FirstRole(St.agents_banned, x)))
            ELSE IF Pickers(St, x) # {}
            THEN /\ ~V.ok
                 /\ V.error.variant = "AssetAlreadyPicked"
                 /\ V.error.asset = x
                 /\ V.error.player \in Pickers(St, x)
            ELSE V.ok

\* C9 witness: P1 asks for the agent P2 has picked.
C9_Witness ==
    /\ Validated
    /\ St.current_phase = "AGENT_PHASE" /\ St.action_number = 16
    /\ St.agents_banned = <<AssetSelection("jett", "P1")>>
    /\ St.agent_picks = << <<"P2", Some("sage")>> >>
    /\ ReqRole = "P1"
    /\ Req.action = "PICK" /\ Req.selection = "sage"
    /\ V = Err(AssetAlreadyPicked("sage", "P2"))

(***************************************************************************)
(* Properties of the session transport.                                    *)
(***************************************************************************)
\* C10: a "player-action" handler step, accepting or rejecting, changes neither
\* the stored TournamentState nor the registry, so an accepted request handled
\* again in the state the step leaves is accepted again.
C10_ActionLeavesStateUnchanged ==
    [][last'.op = "player-action" =>
        /\ UNCHANGED <<current_tournament_state, players, assignments>>
        /\ last'.emits[1].data.success =>
              handle_player_action([players |-> players',
                                    assignments |-> assignments'],
                                   current_tournament_state',
                                   last'.args.socket,
                                   last'.args.data).response.success]_vars

\* C10 witness: a ban was accepted and the stored state still awaits that ban.
C10_Witness ==
    /\ last.op = "player-action"
    /\ last.emits[1].data.success
    /\ IsSome(last.result.validated_action)
    /\ last.args.data.action = "BAN"
    /\ current_tournament_state = Some(BaseState)
    /\ last.args.data.selection \notin NameSet(BaseState.maps_banned)

\* The sending connection holds a registry record that carries a role.
HoldsRole(socket_id) ==
    /\ socket_id \in DOMAIN players
    /\ IsSome(players[socket_id].player_id)

\* C11: a handled action request emits exactly one "action-result", to the
\* requester, whose success flag is true exactly when the requester holds a
\* record with a role, a TournamentState is stored and validating (role, kind,
\* asset) against the stored state succeeds; for a requester without a role no
\* validation is run.
C11_OneResultPerRequest ==
    last.op = "player-action" =>
        LET s == last.args.socket
            d == last.args.data
            accepted ==
                /\ HoldsRole(s)
                /\ IsSome(current_tournament_state)
                /\ validate_player_action(Unwrap(current_tournament_state),
                                          Unwrap(players[s].player_id),
                                          d.action, d.selection).ok
        IN  /\ Len(last.emits) = 1
            /\ last.emits[1].to = s
            /\ last.emits[1].event = "action-result"
            /\ last.emits[1].data.success <=> accepted
            /\ ~HoldsRole(s) =>
                  /\ last.result.validation = None
                  /\ ~last.emits[1].data.success

\* C11 witness: a connection that never joined sends a ban that the stored state
\* would accept from P1, which another connection holds; it is rejected and no
\* validation is run.
C11_Witness ==
    /\ last.op = "player-action"
    /\ ~HoldsRole(last.args.socket)
    /\ "P1" \in DOMAIN assignments
    /\ current_tournament_state = Some(BaseState)
    /\ last.args.data.action = "BAN" /\ last.args.data.selection = "bind"
    /\ last.result.validation = None
    /\ ~last.emits[1].data.success
    /\ last.emits[1].to = last.args.socket

\* C12: every "player-action" step whose request validation accepts hands one
\* ValidatedPlayerAction {player, action, selection, timestamp, socket_id} to the
\* controller, by appending it to validated_actions, the one field the server
\* shares with its handlers for that purpose; a rejected request appends nothing.
C12_AcceptedActionHandedOver ==
    [][last'.op = "player-action" =>
        validated_actions' =
            IF last'.emits[1].data.success
            THEN Append(validated_actions,
                        ValidatedPlayerAction(
                            Unwrap(players[last'.args.socket].player_id),
                            last'.args.data.action, last'.args.data.selection,
                            last'.args.data.timestamp, last'.args.socket))
            ELSE validated_actions]_vars

\* C14: once a connection has disconnected and every handler task spawned for
\* its events has run (its on_disconnect task and its "player-join" tasks), the
\* registry holds no record for the connection and no role is assigned to it,
\* whatever order the runtime ran the tasks in.
C14_DisconnectedLeavesNoRecord ==
    \A s \in SocketIds :
        (connections[s] = "closed" /\ JoinTasksOf(s) = {}) =>
            /\ s \notin DOMAIN players
            /\ \A r \in DOMAIN assignments : assignments[r] # s

\* The controller operations that need a running session
ControllerSends ==
    {"broadcast_tournament_state", "send_turn_start", "send_timer_control",
     "send_tournament_end"}

\* C13: a successful broadcast of S leaves S stored; the stored TournamentState
\* changes in no other step, so every action handled before the next successful
\* broadcast is validated against S; a broadcast, turn notification,
\* timer-control or session-end request made while the session is not running
\* returns an error and leaves the stored state as it was; and a turn
\* notification never changes the stored state.
C13_StoredStateFollowsBroadcast ==
    [][/\ (last'.op = "broadcast_tournament_state" /\ last'.result.ok) =>
              current_tournament_state' = Some(last'.args.state)
       /\ current_tournament_state' # current_tournament_state =>
              (last'.op = "broadcast_tournament_state" /\ last'.result.ok)
       /\ (last'.op = "player-action" /\ IsSome(last'.result.validation)) =>
              /\ IsSome(current_tournament_state)
              /\ Unwrap(last'.result.validation) =
                    validate_player_action(
                        Unwrap(current_tournament_state),
                        Unwrap(players[last'.args.socket].player_id),
                        last'.args.data.action, last'.args.data.selection)
       /\ (last'.op \in ControllerSends /\ ~IsSome(io)) =>
              /\ last'.result = Err(ErrNotRunning)
              /\ last'.emits = <<>>
              /\ UNCHANGED current_tournament_state
       /\ last'.op = "send_turn_start" => UNCHANGED current_tournament_state]_vars

\* C13 witness: a state was stored by an earlier broadcast, the session has been
\* stopped since, and a broadcast of a different state has just failed, leaving
\* the stored state in place.
C13_Witness ==
    /\ last.op = "broadcast_tournament_state"
    /\ last.result = Err(ErrNotRunning)
    /\ IsSome(current_tournament_state)
    /\ Unwrap(current_tournament_state) # last.args.state
    /\ ~IsSome(io)

(***************************************************************************)
(* Properties of the projection.                                           *)
(***************************************************************************)
\* The last step projected last.args.* for participants
Projected ==
    /\ last.op \in {"broadcast_tournament_state", "send_tournament_start",
                    "send_turn_start"}
    /\ last.result.ok

\* The state the last step projected
ProjectedState ==
    IF last.op = "broadcast_tournament_state" THEN last.args.state
    ELSE last.args.tournament_state

\* The PlayerGameState the last step emitted
Projection ==
    IF last.op = "send_turn_start" THEN last.emits[1].data.tournament_state
    ELSE last.emits[1].data

ExpectedKinds == {"MAP_BAN", "MAP_PICK", "DECIDER", "AGENT_BAN", "AGENT_PICK"}

\* C15: for every projected state, the projection's phase label is one of
\* MAP_BAN, MAP_PICK, DECIDER, AGENT_BAN, AGENT_PICK exactly when the
\* validator's expected kind for the same (phase, action number) is that kind;
\* current_action is the coarse family of the label, and absent when the
\* validator's expected kind is UNKNOWN.
C15_LabelMatchesExpectedKind ==
    Projected =>
        LET expected == get_expected_action_type(ProjectedState)
        IN  /\ \A k \in ExpectedKinds : Projection.phase = k <=> expected = k
            /\ Projection.phase \in ExpectedKinds =>
                  Projection.current_action = Some(Family(Projection.phase))
            /\ expected = "UNKNOWN" => Projection.current_action = None

TurnSent == last.op = "send_turn_start" /\ last.result.ok

\* The position of name x in catalog
IndexIn(catalog, x) == CHOOSE i \in 1..Len(catalog) : catalog[i] = x

\* C17: the options of a turn notification are, at MAP_PHASE action 9, the names
\* of maps_picked in their order; at any other MAP_PHASE or AGENT_PHASE turn,
\* the names of that class's catalog that are neither banned nor picked, each
\* once and in catalog order.  At MAP_PHASE action 1 with no ban and no pick
\* they are the 12 maps of the catalog; with one catalog map banned they are 11
\* names without that map.
C17_AvailableOptions ==
    TurnSent =>
        LET st == last.args.tournament_state
            opts == last.emits[1].data.available_options
            decider == st.current_phase = "MAP_PHASE" /\ st.action_number = 9
            catalog == IF st.current_phase = "MAP_PHASE" THEN ALL_MAPS ELSE ALL_AGENTS
            taken == IF st.current_phase = "MAP_PHASE"
                     THEN NameSet(st.maps_banned) \cup NameSet(st.maps_picked)
                     ELSE NameSet(st.agents_banned)
                          \cup {a \in Range(ALL_AGENTS) : Pickers(st, a) # {}}
        IN  /\ decider => opts = Names(st.maps_picked)
            /\ (st.current_phase \in {"MAP_PHASE", "AGENT_PHASE"} /\ ~decider) =>
                  /\ Range(opts) = Range(catalog) \ taken
                  /\ \A i, j \in 1..Len(opts) :
                        i < j => IndexIn(catalog, opts[i]) < IndexIn(catalog, opts[j])
            /\ (/\ st.current_phase = "MAP_PHASE" /\ st.action_number = 1
                /\ st.maps_picked = <<>>) =>
                  /\ st.maps_banned = <<>> => (opts = ALL_MAPS /\ Len(opts) = 12)
                  /\ (Len(st.maps_banned) = 1 /\ Contains(ALL_MAPS, st.maps_banned[1].name)) =>
                        /\ Len(opts) = 11
                        /\ ~Contains(opts, st.maps_banned[1].name)

\* C17 witness: a turn at MAP_PHASE action 7 with bind and haven banned and
\* ascent picked offers the nine maps left, in catalog order.
C17_Witness ==
    /\ TurnSent
    /\ last.args.tournament_state.current_phase = "MAP_PHASE"
    /\ last.args.tournament_state.action_number = 7
    /\ NameSet(last.args.tournament_state.maps_banned) = {"bind", "haven"}
    /\ NameSet(last.args.tournament_state.maps_picked) = {"ascent"}
    /\ last.emits[1].data.available_options =
          <<"abyss", "breeze", "corrode", "fracture", "icebox", "lotus",
            "pearl", "split", "sunset">>

(***************************************************************************)
(* Properties of the timer.                                                *)
(***************************************************************************)
\* C18: start_timer called while the timer is Running or Finished, and
\* pause_timer called while it is Ready, Paused or Finished, return an error
\* and change nothing: the status, the seconds and the initial seconds stay,
\* no snapshot is emitted, no loop is spawned and no stop signal is sent.
C18_RefusedCommandChangesNothing ==
    [][(\/ last'.op = "start_timer" /\ timer.status \in {"Running", "Finished"}
        \/ last'.op = "pause_timer" /\ timer.status \in {"Ready", "Paused", "Finished"}) =>
          /\ ~last'.result.ok
          /\ last'.emits = <<>>
          /\ UNCHANGED <<timer, loops, stop_sent>>]_vars

\* C18 witness: pause_timer has been refused while the timer is Finished and a
\* loop is still waiting, unsignalled by the refused call.
C18_Witness ==
    /\ last.op = "pause_timer"
    /\ ~last.result.ok
    /\ timer.status = "Finished"
    /\ \E l \in LoopIds : loops[l].pc = "waiting" /\ ~loops[l].signalled

\* C19: reset_timer(Some(n)) called in any status leaves the timer Ready with
\* seconds = initial_seconds = n; reset_timer(None) leaves it Ready with
\* seconds = initial_seconds = the initial seconds held before the call.
C19_ResetYieldsReady ==
    [][last'.op = "reset_timer" =>
          LET n == IF IsSome(last'.args.seconds)
                   THEN Unwrap(last'.args.seconds)
                   ELSE timer.initial_seconds
          IN  /\ timer' = [status |-> "Ready", seconds |-> n, initial_seconds |-> n]
              /\ last'.result = Ok(timer')]_vars

\* C19 witness: reset_timer(None) has been called on a timer that had run
\* down from 2 seconds: it is Ready at 2 of 2 seconds, and the loop of that
\* run has not yet seen the stop signal.
C19_Witness ==
    /\ last.op = "reset_timer"
    /\ last.args.seconds = None
    /\ timer = [status |-> "Ready", seconds |-> 2, initial_seconds |-> 2]
    /\ \E l \in LoopIds : loops[l].pc = "waiting" /\ loops[l].signalled

\* The "timer-tick" snapshots a step emitted
TickSnapshots(emits) == {i \in 1..Len(emits) : emits[i].event = "timer-tick"}

\* C20: after start_timer from Ready with initial_seconds = n and k ticks,
\* k <= n, with no pause and no reset in between, seconds = n - k; each of
\* these ticks takes exactly one second off and emits exactly one snapshot,
\* which carries the new seconds.
C20_TicksCountDown ==
    [][/\ (run'.from_ready /\ run'.ticks <= timer'.initial_seconds) =>
              timer'.seconds = timer'.initial_seconds - run'.ticks
       /\ (/\ last'.op = "loop_tick"
           /\ run.from_ready /\ run.ticks < timer.initial_seconds) =>
              /\ timer'.seconds = timer.seconds - 1
              /\ Cardinality(TickSnapshots(last'.emits)) = 1
              /\ last'.emits[1].event = "timer-tick"
              /\ last'.emits[1].data.seconds = timer'.seconds]_vars

\* C20 witness: started from Ready at 3 seconds, the timer has ticked twice and
\* holds 1 second.
C20_Witness ==
    /\ last.op = "loop_tick"
    /\ run = [from_ready |-> TRUE, ticks |-> 2]
    /\ timer = [status |-> "Running", seconds |-> 1, initial_seconds |-> 3]

\* C21: a successful pause_timer leaves the timer Paused with its seconds and
\* initial seconds as they were; while the timer is Paused no step other than
\* reset_timer and a successful start_timer changes it; and that start_timer
\* changes the status to Running and nothing else.  So at the return of a
\* start_timer that follows a pause_timer, seconds and initial_seconds equal
\* their values at the return of that pause_timer, and the status is Running.
C21_PauseThenStartKeepsSeconds ==
    [][/\ (last'.op = "pause_timer" /\ last'.result.ok) =>
              /\ timer' = [timer EXCEPT !.status = "Paused"]
              /\ last'.result.value = snapshot(timer')
       /\ timer.status = "Paused" =>
              \/ last'.op = "reset_timer"
              \/ /\ last'.op = "start_timer"
                 /\ last'.result = Ok(snapshot(timer'))
                 /\ timer' = [timer EXCEPT !.status = "Running"]
              \/ timer' = timer]_vars

\* C21 witness: start_timer has just returned for a timer that was paused at 2
\* of 3 seconds: it is Running at 2 of 3 seconds.
C21_Witness ==
    /\ last.op = "start_timer"
    /\ last.result.ok
    /\ timer = [status |-> "Running", seconds |-> 2, initial_seconds |-> 3]

\* C22: under fair scheduling of the loop, if from some point on no pause_timer
\* and no reset_timer is issued, then the timer does not stay Running with
\* seconds >= 1: a timer that is Running with seconds >= 1 after that point,
\* started from Ready or resumed from Paused, counts down to Finished with
\* seconds = 0 and stays there.
C22_RunningCountsDownToFinished ==
    <>[][last'.op \notin {"pause_timer", "reset_timer"}]_vars
        => <>[](~(timer.status = "Running" /\ timer.seconds >= 1))

\* The "timer-finished" signals a step emitted
FinishedSignals(emits) == {i \in 1..Len(emits) : emits[i].event = "timer-finished"}

\* C23: a step emits "timer-finished" at most once, and it emits it exactly
\* when the status becomes Finished; that step is a run of the ticker branch
\* that takes the last second off, leaves seconds = 0 and ends its loop; every
\* tick that brings seconds from 1 to 0 emits it; and the status is Finished
\* only with seconds = 0.  So the signal is never emitted with the status
\* Ready, Running or Paused.
C23_FinishedSignalledOnce ==
    [][LET n == Cardinality(FinishedSignals(last'.emits))
       IN  /\ n <= 1
           /\ n = 1 <=> (timer.status # "Finished" /\ timer'.status = "Finished")
           /\ n = 1 =>
                  /\ last'.op = "loop_tick"
                  /\ timer.status = "Running" /\ timer.seconds = 1
                  /\ timer'.seconds = 0
                  /\ loops'[last'.args.loop] = NoLoop
           /\ (last'.op = "loop_tick" /\ timer.seconds >= 1 /\ timer'.seconds = 0) =>
                  n = 1
           /\ timer'.status = "Finished" => timer'.seconds = 0]_vars

\* C23 witness: with two loops alive, one of them has taken the last second
\* off, emitted "timer-finished" and exited; the timer is Finished at 0 seconds
\* and the other loop is still to run.
C23_Witness ==
    /\ last.op = "loop_tick"
    /\ FinishedSignals(last.emits) # {}
    /\ timer.status = "Finished" /\ timer.seconds = 0
    /\ loops[last.args.loop] = NoLoop
    /\ \E l \in LoopIds : loops[l].pc = "ticking"

(***************************************************************************)
(* Properties of shutdown.                                                 *)
(***************************************************************************)
\* C24: when stop has returned, the session is marked not running, the
\* registry holds no record and no role is assigned, no run_timer_loop task is
\* alive, and the server task and the io handle are gone.
C24_StopLeavesNothingRunning ==
    last.op = "stop" =>
        /\ ~status.running
        /\ DOMAIN players = {} /\ DOMAIN assignments = {}
        /\ \A l \in LoopIds : loops[l].pc = "none"
        /\ ~IsSome(server_handle)
        /\ ~IsSome(io)

(***************************************************************************)
(* Further properties of draft validation.                                 *)
(***************************************************************************)
\* C25: with the event started, the phase not CONCLUSION and no current player
\* set, an action of either role fails at check 3 with NotPlayerTurn.
C25_NoTurnOwnerIsNotPlayerTurn ==
    (Validated /\ Check1 /\ Check2 /\ St.current_player = None) =>
        /\ ~V.ok
        /\ V.error.variant = "NotPlayerTurn"

\* C26: for a phase and action number outside the rows of the expected-kind
\* table (MAP_PHASE outside 1..9, AGENT_PHASE outside 1..17, any other phase)
\* the expected kind is UNKNOWN and the action is rejected, whatever its kind,
\* its asset and its sender.
C26_OutsideTableIsRejected ==
    (Validated /\ TableKind(St.current_phase, St.action_number) = "NO_ROW") =>
        /\ get_expected_action_type(St) = "UNKNOWN"
        /\ ~V.ok

(***************************************************************************)
(* Properties of the timer loop under pause and reset.                     *)
(***************************************************************************)
\* The loops that were alive, past their clone of the stop receiver, when the
\* latest reset_timer was called: reset signals them and leaves a fresh
\* channel with nothing sent, and only pause_timer sends on that channel
StaleLoops == {l \in LoopIds : ~stop_sent /\ loops[l].signalled}

\* C27: a loop that was running when reset_timer was called never changes the
\* seconds or the status and never emits after that reset, also when
\* start_timer has been called again before the loop took its stop branch.
C27_StaleLoopChangesNothing ==
    [][(last'.op = "loop_tick" /\ last'.args.loop \in StaleLoops) =>
          /\ timer' = timer
          /\ last'.emits = <<>>]_vars

\* The steps of a run_timer_loop task
LoopSteps == {"loop_begin", "ticker_tick", "loop_tick", "loop_stop"}

\* C28: from the return of pause_timer or reset_timer to the next successful
\* start_timer the status is Paused or Ready; while it is, no loop step
\* changes the seconds, the initial seconds or the status, and no loop step
\* emits anything, also when the ticker branch had been taken before the
\* command and runs after it.
C28_NoTickWhilePausedOrReady ==
    [][/\ (last'.op = "pause_timer" /\ last'.result.ok) => timer'.status = "Paused"
       /\ last'.op = "reset_timer" => timer'.status = "Ready"
       /\ (timer.status \in {"Paused", "Ready"} /\ timer'.status # timer.status) =>
              \/ last'.op = "start_timer" /\ last'.result.ok
              \/ last'.op = "reset_timer"
       /\ (timer.status \in {"Paused", "Ready"} /\ last'.op \in LoopSteps) =>
              /\ timer' = timer
              /\ last'.emits = <<>>]_vars

\* C28 witness: the ticker branch was taken while the timer was Running, the
\* timer was paused before the branch locked the state, and the branch has
\* just run: it left the paused timer at 3 of 3 seconds and ended its loop.
C28_Witness ==
    /\ last.op = "loop_tick"
    /\ last.emits = <<>>
    /\ timer = [status |-> "Paused", seconds |-> 3, initial_seconds |-> 3]
    /\ loops[last.args.loop] = NoLoop

(***************************************************************************)
(* Properties of the draft between two pushes of the controller.           *)
(***************************************************************************)
\* C29: once an action has been accepted against the stored state and until
\* the controller pushes again, the stored state stays as it was, and every
\* action accepted in between is one that validation passes against that same
\* state for the role of the connection that sent it: the acceptance of the
\* first action takes nothing away from the second.
C29_AcceptedAgainstSameState ==
    [][/\ UNCHANGED current_tournament_state
       /\ Accepted(last') =>
              /\ last'.args.socket \in DOMAIN players
              /\ validate_player_action(
                    Unwrap(current_tournament_state),
                    Unwrap(players[last'.args.socket].player_id),
                    last'.args.data.action, last'.args.data.selection) = OkUnit
              /\ last'.emits =
                    <<Emit(last'.args.socket, "action-result",
                           ActionResponse(TRUE, None))>>]_vars

\* C29 witness: after the ban of "bind" sent on connection 1 was accepted
\* against BaseState, and with no push since, the same ban sent on another
\* connection has been accepted against BaseState as well.
C29_Witness ==
    /\ Accepted(last)
    /\ last.args.socket # 1
    /\ last.args.data.selection = "bind"
    /\ current_tournament_state = Some(BaseState)

\* The names of a list of entries, in order
EntryNames(list) == [i \in 1..Len(list) |-> list[i].name]

\* The agents picked, one per role that has picked
PickedNames(agent_picks) ==
    LET RECURSIVE from(_)
        from(i) == IF i > Len(agent_picks) THEN <<>>
                   ELSE IF IsSome(agent_picks[i][2])
                        THEN <<Unwrap(agent_picks[i][2])>> \o from(i + 1)
                        ELSE from(i + 1)
    IN  from(1)

\* No element of seq comes twice
NoRepeats(seq) == \A i, j \in 1..Len(seq) : seq[i] = seq[j] => i = j

\* C30: with a controller that folds one accepted action at a time and pushes
\* the result before the next action is validated, in every reachable state no
\* map name comes twice in maps_banned and maps_picked taken together, no agent
\* name comes twice in agents_banned and the agent picks taken together, and
\* decider_map, when set, names a picked map.
C30_FoldedDraftHasNoRepeats ==
    LET st == Unwrap(current_tournament_state)
    IN  /\ NoRepeats(EntryNames(st.maps_banned) \o EntryNames(st.maps_picked))
        /\ NoRepeats(EntryNames(st.agents_banned) \o PickedNames(st.agent_picks))
        /\ IsSome(st.decider_map) =>
              Unwrap(st.decider_map) \in NameSet(st.maps_picked)

\* C30 witness: the folds have left one banned map, one picked map that is
\* also the decider, one banned agent and one picked agent.
C30_Witness ==
    LET st == Unwrap(current_tournament_state)
    IN  /\ last.op = "broadcast_tournament_state"
        /\ Len(st.maps_banned) = 1 /\ Len(st.maps_picked) = 1
        /\ st.decider_map = Some(st.maps_picked[1].name)
        /\ Len(st.agents_banned) = 1
        /\ PickedNames(st.agent_picks) # <<>>

(***************************************************************************)
(* Further properties of the timer.                                        *)
(***************************************************************************)
\* C31: every change of the timer status is Ready -> Running or
\* Paused -> Running by start_timer, Running -> Paused by pause_timer,
\* Running -> Finished by the loop taking the last second off, or any status
\* -> Ready by reset_timer.  So Finished is left only by reset_timer and a
\* Ready or Paused timer never becomes Finished.
C31_StatusTransitions ==
    [][timer'.status # timer.status =>
          \/ /\ timer.status \in {"Ready", "Paused"} /\ timer'.status = "Running"
             /\ last'.op = "start_timer"
          \/ /\ timer.status = "Running" /\ timer'.status = "Paused"
             /\ last'.op = "pause_timer"
          \/ /\ timer.status = "Running" /\ timer'.status = "Finished"
             /\ last'.op = "loop_tick" /\ timer'.seconds = 0
          \/ /\ timer'.status = "Ready"
             /\ last'.op = "reset_timer"]_vars

\* C31 witness: the countdown has run to Finished and a start_timer on the
\* Finished timer has just been refused.
C31_Witness ==
    /\ last.op = "start_timer"
    /\ ~last.result.ok
    /\ timer.status = "Finished"
    /\ timer.seconds = 0

\* ---------------------------------------------------------------------------
\* Further properties of the projection

\* The states that differ from st at most in the controller-only fields
ControllerVariants(st) ==
    {[st EXCEPT !.pending_selection = ps, !.revealed_actions = ra,
                !.first_player = fp, !.event_started = es] :
        ps \in {None, Some("haven"), Some("omen"), Some("bind")},
        ra \in {<<>>, <<1>>, <<1, 2>>},
        fp \in Roles,
        es \in {None, Some(FALSE), Some(TRUE)}}

\* What a projecting step emits to participants for state st, given the step
\* that was taken
EmittedFor(l, st) ==
    IF l.op = "send_turn_start"
    THEN create_turn_start_event(st, l.args.target_player,
                                 get_available_options(st), l.args.time_limit)
    ELSE transform_for_players(st)

\* C32: the projection does not depend on pending_selection, revealed_actions,
\* first_player or event_started.  Whatever a tournament-state, a
\* tournament-start or a turn-start event carries for the projected state is
\* what it would carry for every state that differs from it only in those four
\* fields, and the view has no field for the pending selection.
C32_ControllerOnlyFieldsStayHidden ==
    Projected =>
        /\ \A v \in ControllerVariants(ProjectedState) :
              last.emits[1].data = EmittedFor(last, v)
        /\ "pending_selection" \notin DOMAIN Projection
        /\ "revealed_actions" \notin DOMAIN Projection

\* C32 witness: a state with a selection pending and actions revealed, second
\* role first, has been sent in a turn notification.
C32_Witness ==
    /\ Projected
    /\ last.op = "send_turn_start"
    /\ ProjectedState.pending_selection = Some("haven")
    /\ ProjectedState.revealed_actions = <<1, 2>>
    /\ ProjectedState.first_player = "P2"
    /\ ProjectedState.event_started = Some(FALSE)

\* ---------------------------------------------------------------------------
\* Further properties of the server

\* C33: a join handler whose add_player succeeds sends exactly one
\* player-assigned event, to the requesting socket, carrying the role the
\* registry now holds for that socket.  A join handler whose add_player fails
\* (tournament full, socket already joined) sends exactly one error event to
\* the requesting socket, leaves the socket no longer open, and changes neither
\* the records nor the role assignments.
C33_JoinOutcomeEvents ==
    [][last'.op = "player-join" =>
          LET s == last'.args.socket
          IN  /\ Len(last'.emits) = 1
              /\ last'.emits[1].to = s
              /\ IF last'.result.ok
                 THEN /\ last'.emits[1].event = "player-assigned"
                      /\ s \in DOMAIN players'
                      /\ IsSome(players'[s].player_id)
                      /\ last'.emits[1].data.playerId = players'[s].player_id
                      /\ assignments'[Unwrap(players'[s].player_id)] = s
                 ELSE /\ last'.emits[1].event = "error"
                      /\ last'.result.error \in {ErrTournamentFull, ErrSocketConnected}
                      /\ connections'[s] # "open"
                      /\ players' = players
                      /\ assignments' = assignments]_vars

\* C33 witness: with both roles taken, a third socket's join has failed with
\* the tournament full and its connection is being closed.
C33_Witness ==
    /\ last.op = "player-join"
    /\ ~last.result.ok
    /\ last.result.error = ErrTournamentFull
    /\ connections[last.args.socket] = "closing"
    /\ DOMAIN assignments = {"P1", "P2"}
    /\ last.args.socket \notin DOMAIN players

\* C34: a start issued while the server is running returns the already-running
\* error and changes neither the status (running flag, port, player count),
\* the records, the role assignments, the stored tournament state nor the
\* server's handles.  A start whose bind fails returns the bind error and
\* leaves the server not running, with the same unchanged state.
C34_FailedStartChangesNothing ==
    [][last'.op = "start" =>
          /\ status.running =>
                (~last'.result.ok /\ last'.result.error = ErrAlreadyRunning)
          /\ ~last'.result.ok =>
                /\ UNCHANGED <<status, players, assignments,
                               current_tournament_state, io, server_handle,
                               validated_actions>>
                /\ last'.emits = <<>>
                /\ last'.result.error = ErrBind =>
                      (~status.running /\ ~status'.running)]_vars

\* C34 witness: a start has failed as already running while a participant held
\* a role and a state was stored.
C34_Witness ==
    /\ last.op = "start"
    /\ ~last.result.ok
    /\ last.result.error = ErrAlreadyRunning
    /\ status.running
    /\ status.player_count >= 1
    /\ DOMAIN assignments # {}
    /\ IsSome(current_tournament_state)

\* C35: no status query and no join or disconnect task wait for each other:
\* there is no state in which get_status holds the status lock and waits for
\* the registry lock while a join or disconnect task holds the registry lock
\* and waits for the status lock.
C35_NoCircularWait ==
    ~(/\ mutex.status = Some(StatusQuery)
      /\ IsSome(mutex.player_manager)
      /\ Unwrap(mutex.player_manager).kind \in {"player-join", "on_disconnect"})

\* ---------------------------------------------------------------------------
\* Further properties of validation and projection together

\* C36: when the event has started, the phase is not CONCLUSION and it is the
\* requesting role's turn, the requested asset is among the options
\* get_available_options offers for the stored state exactly when validation
\* accepts it for that role under some action kind; in particular an accepted
\* request names an offered option.
C36_OfferedIffAccepted ==
    (/\ Validated
     /\ St.event_started = Some(TRUE)
     /\ St.current_phase # "CONCLUSION"
     /\ St.current_player = Some(ReqRole)) =>
        LET x == Req.selection
            offered == Contains(get_available_options(St), x)
            accepted == \E K \in {"BAN", "PICK", "DECIDER"} :
                            validate_player_action(St, ReqRole, K, x).ok
        IN  /\ V.ok => offered
            /\ offered <=> accepted

\* C37: while the server is stopped the registry is empty: from a completed
\* stop until the next start there is no participant record and no role is
\* assigned, whatever join task runs in between.
C37_RegistryEmptyWhileStopped ==
    ~status.running => (DOMAIN players = {} /\ DOMAIN assignments = {})

\* The loop instances that have been spawned and have not exited
LiveLoops == {l \in LoopIds : loops[l].pc # "none"}

\* C38: at any time at most one run_timer_loop instance is live, whatever
\* start, pause and reset commands were given.
C38_AtMostOneLiveLoop ==
    Cardinality(LiveLoops) <= 1

\* C39: a timer started with no seconds left does not stay Running at 0 for
\* ever.  Under fair scheduling of the loop's steps there is no behaviour in
\* which, from some point on, the timer is Running with seconds = 0 while a
\* loop instance that was never told to stop keeps ticking.
C39_ZeroStartFinishes ==
    []<>~(/\ timer.status = "Running"
          /\ timer.seconds = 0
          /\ \E l \in LoopIds : loops[l].pc # "none" /\ ~loops[l].signalled)

\* C40: in every turn-start event the top-level phase is the phase of the
\* PlayerGameState embedded in the same event, and the top-level action is
\* that state's current_action.
C40_TurnStartAgreesWithView ==
    TurnSent =>
        LET event == last.emits[1].data
        IN  /\ event.phase = event.tournament_state.phase
            /\ Some(event.action) = event.tournament_state.current_action

====
